---- MODULE Spec2Model ----
(***************************************************************************)
(* Model of the cerium incremental type checker (project/framework).       *)
(*                                                                         *)
(*   definitions.rs            AstRelation                                 *)
(*   ast.rs                    Tree, get_initial_relation_set,             *)
(*                             get_diff_relation_set, compare_items,       *)
(*                             delete_onwards, insert_onwards,             *)
(*                             relations_match                             *)
(*   parser_interface.rs       AstBuilder (Ids handed out in post-order)   *)
(*   standard_type_checker.rs  type_check (the from-scratch baseline)      *)
(*   ddlog_interface.rs        run_ddlog_type_checker, get_equiv_ddvalue   *)
(*   lib.rs / main.rs          the two watcher loops                       *)
(*                                                                         *)
(* A Rust panic is modelled as a result whose field panic is TRUE; the     *)
(* drivers turn it into pc = "aborted".                                    *)
(***************************************************************************)
EXTENDS Integers, Sequences, FiniteSets, TLC

VARIABLES
    pc,           \* "start" | "watching" (blocked in rx.recv()) | "aborted" (panicked)
    prev_ast,     \* the maintained tree (lib.rs:75 / main.rs:30)
    prev_result,  \* the previous verdict (lib.rs:76)
    store,        \* the input relations held by the DDlog engine
    last,         \* history: what the last loop iteration did
    steps         \* history: number of write events consumed

vars == <<pc, prev_ast, prev_result, store, last, steps>>

(***************************************************************************)
(* Sequence helpers.                                                       *)
(***************************************************************************)
Range(s) == {s[i] : i \in DOMAIN s}

Contains(s, x) == x \in Range(s)

Reverse(s) == [i \in 1..Len(s) |-> s[Len(s) + 1 - i]]

SetMax(S) == CHOOSE m \in S : \A k \in S : k <= m

\* Every order in which the elements of S can be enumerated.
RECURSIVE Orders(_)
Orders(S) ==
    IF S = {} THEN {<<>>}
    ELSE UNION {{<<x>> \o p : p \in Orders(S \ {x})} : x \in S}

\* The element of a one-element set: The({e : x \in {v}}) is e with x bound
\* to the value v, which is computed once.
The(S) == CHOOSE x \in S : TRUE

(***************************************************************************)
(* definitions.rs: AstRelation.  One record shape per variant; the field   *)
(* tag is the variant name.                                                *)
(***************************************************************************)
TransUnit(id, body_ids) == [tag |-> "TransUnit", id |-> id, body_ids |-> body_ids]

FunDef(id, fun_name, return_type_id, arg_ids, body_id) ==
    [tag |-> "FunDef", id |-> id, fun_name |-> fun_name,
     return_type_id |-> return_type_id, arg_ids |-> arg_ids, body_id |-> body_id]

FunCall(id, fun_name, arg_ids) ==
    [tag |-> "FunCall", id |-> id, fun_name |-> fun_name, arg_ids |-> arg_ids]

Assign(id, var_name, type_id, expr_id) ==
    [tag |-> "Assign", id |-> id, var_name |-> var_name,
     type_id |-> type_id, expr_id |-> expr_id]

Return(id, expr_id) == [tag |-> "Return", id |-> id, expr_id |-> expr_id]

If(id, cond_id, then_id) ==
    [tag |-> "If", id |-> id, cond_id |-> cond_id, then_id |-> then_id]

IfElse(id, cond_id, then_id, else_id) ==
    [tag |-> "IfElse", id |-> id, cond_id |-> cond_id,
     then_id |-> then_id, else_id |-> else_id]

While(id, cond_id, body_id) ==
    [tag |-> "While", id |-> id, cond_id |-> cond_id, body_id |-> body_id]

Compound(id, start_id) == [tag |-> "Compound", id |-> id, start_id |-> start_id]

Item(id, stmt_id, next_stmt_id) ==
    [tag |-> "Item", id |-> id, stmt_id |-> stmt_id, next_stmt_id |-> next_stmt_id]

EndItem(id, stmt_id) == [tag |-> "EndItem", id |-> id, stmt_id |-> stmt_id]

BinaryOp(id, arg1_id, arg2_id) ==
    [tag |-> "BinaryOp", id |-> id, arg1_id |-> arg1_id, arg2_id |-> arg2_id]

Var(id, var_name) == [tag |-> "Var", id |-> id, var_name |-> var_name]

Arg(id, var_name, type_id) ==
    [tag |-> "Arg", id |-> id, var_name |-> var_name, type_id |-> type_id]

Leaf(tag, id) == [tag |-> tag, id |-> id]

LeafTags == {"Void", "Int", "Float", "Char"}

\* ast.rs get_relation_id
get_relation_id(r) == r.id

\* The Id-valued fields of a relation, in the order delete_onwards and
\* insert_onwards recurse into them.
FieldIds(r) ==
    CASE r.tag = "TransUnit" -> r.body_ids
      [] r.tag = "FunDef"    -> <<r.return_type_id>> \o r.arg_ids \o <<r.body_id>>
      [] r.tag = "FunCall"   -> r.arg_ids
      [] r.tag = "Assign"    -> <<r.type_id, r.expr_id>>
      [] r.tag = "Return"    -> <<r.expr_id>>
      [] r.tag = "If"        -> <<r.cond_id, r.then_id>>
      [] r.tag = "IfElse"    -> <<r.cond_id, r.then_id, r.else_id>>
      [] r.tag = "While"     -> <<r.cond_id, r.body_id>>
      [] r.tag = "Compound"  -> <<r.start_id>>
      [] r.tag = "Item"      -> <<r.stmt_id, r.next_stmt_id>>
      [] r.tag = "EndItem"   -> <<r.stmt_id>>
      [] r.tag = "BinaryOp"  -> <<r.arg1_id, r.arg2_id>>
      [] r.tag = "Arg"       -> <<r.type_id>>
      [] OTHER               -> <<>>

(***************************************************************************)
(* ast.rs: Tree and AstNode.  removed and reused are history fields: the   *)
(* Ids delete_node has removed so far, and those of them that add_node     *)
(* has handed out again.                                                   *)
(***************************************************************************)
AstNode(node_id, relation) ==
    [node_id |-> node_id, relation |-> relation, children |-> <<>>]

EmptyArena == [k \in {} |-> 0]

TreeNew ==
    [arena |-> EmptyArena, max_id |-> 0, root_id |-> 0, removed |-> {}, reused |-> {}]

Keys(t) == DOMAIN t.arena

HasNode(t, id) == id \in DOMAIN t.arena

\* Tree::get_relation, for an Id that HasNode holds of.
get_relation(t, id) == t.arena[id].relation

get_node(t, id) == t.arena[id]

get_root(t) == t.root_id

\* Tree::add_node: HashMap::insert overwrites a node already stored under node_id.
add_node(t, node_id, relation) ==
    [t EXCEPT !.arena = (node_id :> AstNode(node_id, relation)) @@ t.arena,
              !.max_id = IF node_id > t.max_id THEN node_id ELSE t.max_id,
              !.reused = IF node_id \in t.removed THEN t.reused \cup {node_id}
                                                  ELSE t.reused]

add_root_node(t, node_id, relation) ==
    [add_node(t, node_id, relation) EXCEPT !.root_id = node_id]

link_child(t, node_id, child_id) ==
    IF HasNode(t, node_id) /\ HasNode(t, child_id)
    THEN [t EXCEPT !.arena[node_id].children = Append(@, child_id)]
    ELSE t

replace_children(t, node_id, child_ids) ==
    IF HasNode(t, node_id)
    THEN [t EXCEPT !.arena[node_id].children = child_ids]
    ELSE t

update_relation(t, node_id, relation) ==
    IF HasNode(t, node_id)
    THEN [t EXCEPT !.arena[node_id].relation = relation]
    ELSE t

\* Tree::delete_node panics (max() of no keys) when it removes the last node.
delete_node_panics(t, node_id) == Keys(t) \ {node_id} = {}

\* A delete_node that removes the node and leaves max_id as it was.
delete_node_keeping_max_id(t, node_id) ==
    [t EXCEPT !.arena = [k \in Keys(t) \ {node_id} |-> t.arena[k]],
              !.removed = IF HasNode(t, node_id) THEN t.removed \cup {node_id}
                                                 ELSE t.removed]

\* Tree::delete_node, when it does not panic: max_id is always re-seated.
delete_node(t, node_id) ==
    [t EXCEPT !.arena = [k \in Keys(t) \ {node_id} |-> t.arena[k]],
              !.max_id = SetMax(Keys(t) \ {node_id}),
              !.removed = IF HasNode(t, node_id) THEN t.removed \cup {node_id}
                                                 ELSE t.removed]

\* ast.rs get_initial_relation_set
get_initial_relation_set(ast) == {ast.arena[k].relation : k \in Keys(ast)}

\* The tree as the program holds it, without the history fields.
Core(t) == [arena |-> t.arena, max_id |-> t.max_id, root_id |-> t.root_id]

(***************************************************************************)
(* The parser's input: the lang_c syntax tree of the watched file, as far  *)
(* as AstBuilder reads it.                                                 *)
(***************************************************************************)
Identifier(name) == [k |-> "Identifier", name |-> name]

Constant(c) == [k |-> "Constant", c |-> c]

Call(callee, arguments) == [k |-> "Call", callee |-> callee, arguments |-> arguments]

BinaryOperator(lhs, rhs) == [k |-> "BinaryOperator", lhs |-> lhs, rhs |-> rhs]

Declaration(spec, name, init) ==
    [k |-> "Declaration", spec |-> spec, name |-> name, init |-> init]

ReturnStmt(e) == [k |-> "Return", e |-> e]

ExpressionStmt(e) == [k |-> "Expression", e |-> e]

IfStmt(cond, then) == [k |-> "If", cond |-> cond, then |-> then, has_else |-> FALSE]

IfElseStmt(cond, then, else) ==
    [k |-> "If", cond |-> cond, then |-> then, has_else |-> TRUE, else |-> else]

WhileStmt(cond, body) == [k |-> "While", cond |-> cond, body |-> body]

CompoundStmt(items) == [k |-> "Compound", items |-> items]

ParameterDeclaration(spec, name) == [spec |-> spec, name |-> name]

FunctionDefinition(spec, name, parameters, items) ==
    [spec |-> spec, name |-> name, parameters |-> parameters,
     statement |-> CompoundStmt(items)]

(***************************************************************************)
(* parser_interface.rs: AstBuilder.  A builder state is [tree,             *)
(* current_max_id]; a visit returns the new builder state and the Id of    *)
(* the node it created.                                                    *)
(***************************************************************************)
AstBuilderNew == [tree |-> TreeNew, current_max_id |-> 0]

\* node_id = current_max_id; current_max_id += 1; add_node; link the children.
Emit(b, relation, children) ==
    LET node_id == b.current_max_id
        rel == [relation EXCEPT !.id = node_id]
    IN [b |-> [tree |-> replace_children(add_node(b.tree, node_id, rel),
                                         node_id, children),
               current_max_id |-> node_id + 1],
        id |-> node_id]

visit_type_specifier(b, spec) == Emit(b, Leaf(spec, 0), <<>>)

ConstantTag(c) ==
    CASE c = "Integer" -> "Int" [] c = "Float" -> "Float" [] c = "Character" -> "Char"

visit_constant(b, c) == Emit(b, Leaf(ConstantTag(c), 0), <<>>)

RECURSIVE visit_expression(_, _), visit_arguments(_, _), visit_statement(_, _)
RECURSIVE visit_block_items(_, _, _, _)

\* for argument in &node.arguments { arg_ids.push(self.visit_expression(..)) }
visit_arguments(b, arguments) ==
    IF arguments = <<>> THEN [b |-> b, ids |-> <<>>]
    ELSE The({ The({ [b |-> rest.b, ids |-> <<first.id>> \o rest.ids]
                     : rest \in {visit_arguments(first.b, Tail(arguments))} })
               : first \in {visit_expression(b, Head(arguments))} })

visit_expression(b, node) ==
    CASE node.k = "Identifier" -> Emit(b, Var(0, node.name), <<>>)
      [] node.k = "Constant" -> visit_constant(b, node.c)
      [] node.k = "Call" ->
            The({ Emit(args.b, FunCall(0, node.callee, args.ids), args.ids)
                  : args \in {visit_arguments(b, node.arguments)} })
      [] node.k = "BinaryOperator" ->
            The({ The({ Emit(rhs.b, BinaryOp(0, lhs.id, rhs.id), <<lhs.id, rhs.id>>)
                        : rhs \in {visit_expression(lhs.b, node.rhs)} })
                  : lhs \in {visit_expression(b, node.lhs)} })

\* visit_declaration / visit_init_declarator: the specifier, then the
\* initializer, then the Assign node.
visit_declaration(b, node) ==
    The({ The({ Emit(expr.b, Assign(0, node.name, type.id, expr.id),
                     <<type.id, expr.id>>)
                : expr \in {visit_expression(type.b, node.init)} })
          : type \in {visit_type_specifier(b, node.spec)} })

\* The loop of visit_statement over c.iter().rev(): items still to visit
\* (last one first), the cell created for the item after them, and counter.
visit_block_items(b, rev_items, next_stmt_id, counter) ==
    IF rev_items = <<>> THEN [b |-> b, id |-> next_stmt_id]
    ELSE The({ The({ visit_block_items(cell.b, Tail(rev_items), cell.id, counter + 1)
                     : cell \in {Emit(stmt.b,
                                      IF counter = 0 THEN EndItem(0, stmt.id)
                                      ELSE Item(0, stmt.id, next_stmt_id),
                                      IF counter = 0 THEN <<stmt.id>>
                                      ELSE <<stmt.id, next_stmt_id>>)} })
               : stmt \in {visit_statement(b, Head(rev_items))} })

visit_statement(b, node) ==
    CASE node.k = "Compound" ->
            \* start_id stays 0 when the compound has no item.
            The({ The({ Emit(cells.b, Compound(0, start_id),
                             IF HasNode(cells.b.tree, start_id) THEN <<start_id>>
                             ELSE <<>>)
                        : start_id \in {IF node.items = <<>> THEN 0 ELSE cells.id} })
                  : cells \in {visit_block_items(b, Reverse(node.items), 0, 0)} })
      [] node.k = "Declaration" -> visit_declaration(b, node)
      [] node.k = "Expression" -> visit_expression(b, node.e)
      [] node.k = "Return" ->
            The({ Emit(expr.b, Return(0, expr.id), <<expr.id>>)
                  : expr \in {visit_expression(b, node.e)} })
      [] node.k \in {"While", "If"} ->
            \* The condition, then the body or the then-branch, then the
            \* else-branch if there is one.
            The({ The({ CASE node.k = "While" ->
                                Emit(body.b, While(0, cond.id, body.id),
                                     <<cond.id, body.id>>)
                          [] node.k = "If" /\ ~node.has_else ->
                                Emit(body.b, If(0, cond.id, body.id),
                                     <<cond.id, body.id>>)
                          [] node.k = "If" /\ node.has_else ->
                                The({ Emit(else.b, IfElse(0, cond.id, body.id, else.id),
                                           <<cond.id, body.id, else.id>>)
                                      : else \in {visit_statement(body.b, node.else)} })
                        : body \in {visit_statement(cond.b,
                                        IF node.k = "While" THEN node.body
                                        ELSE node.then)} })
                  : cond \in {visit_expression(b, node.cond)} })

visit_parameter_declaration(b, node) ==
    The({ Emit(type.b, Arg(0, node.name, type.id), <<type.id>>)
          : type \in {visit_type_specifier(b, node.spec)} })

RECURSIVE visit_function_declarator(_, _)
visit_function_declarator(b, parameters) ==
    IF parameters = <<>> THEN [b |-> b, ids |-> <<>>]
    ELSE The({ The({ [b |-> rest.b, ids |-> <<first.id>> \o rest.ids]
                     : rest \in {visit_function_declarator(first.b, Tail(parameters))} })
               : first \in {visit_parameter_declaration(b, Head(parameters))} })

\* visit_function_definition and visit_declarator_for_function: return type,
\* body, parameters, then the FunDef; children are arg_ids, return type, body.
visit_function_definition(b, node) ==
    The({ The({ The({ Emit(args.b, FunDef(0, node.name, ret.id, args.ids, body.id),
                           args.ids \o <<ret.id, body.id>>)
                      : args \in {visit_function_declarator(body.b, node.parameters)} })
                : body \in {visit_statement(ret.b, node.statement)} })
          : ret \in {visit_type_specifier(b, node.spec)} })

RECURSIVE visit_external_declarations(_, _)
visit_external_declarations(b, unit) ==
    IF unit = <<>> THEN [b |-> b, ids |-> <<>>]
    ELSE The({ The({ [b |-> rest.b, ids |-> <<first.id>> \o rest.ids]
                     : rest \in {visit_external_declarations(first.b, Tail(unit))} })
               : first \in {visit_function_definition(b, Head(unit))} })

visit_translation_unit(b, unit) ==
    The({ The({ replace_children(add_root_node(bodies.b.tree, node_id,
                                               TransUnit(node_id, bodies.ids)),
                                 node_id, bodies.ids)
                : node_id \in {bodies.b.current_max_id} })
          : bodies \in {visit_external_declarations(b, unit)} })

build_tree(unit) == visit_translation_unit(AstBuilderNew, unit)

\* A file is [ok, unit]: whether the C parser accepts it, and its translation
\* unit if so.  A file the parser rejects makes parse_with_lang_c panic
\* (parser_interface.rs:28-30).
parse_with_lang_c(file) ==
    IF file.ok THEN [panic |-> FALSE, tree |-> build_tree(file.unit)]
    ELSE [panic |-> TRUE]

parse_file_into_ast(file) == parse_with_lang_c(file)

(***************************************************************************)
(* ast.rs: relations_match.  The result is "true", "false" or "panic".     *)
(***************************************************************************)
Bool(b) == IF b THEN "true" ELSE "false"

\* a && b: b is evaluated only when a is true.
AndAlso(a, b) == IF a = "true" THEN b ELSE a

RECURSIVE relations_match(_, _, _, _), match_ids(_, _, _, _), match_call_args(_, _, _, _, _)

\* relations_match(&t1.get_relation(id1), &t2.get_relation(id2), t1, t2)
match_ids(id1, id2, t1, t2) ==
    IF ~HasNode(t1, id1) \/ ~HasNode(t2, id2) THEN "panic"
    ELSE relations_match(get_relation(t1, id1), get_relation(t2, id2), t1, t2)

\* for (index, arg_id1) in arg_ids1.iter().enumerate(): every argument of the
\* first call is compared with arg_ids2[index]; the loop does not stop at a
\* mismatch, and the lengths are not compared.
match_call_args(arg_ids1, arg_ids2, index, t1, t2) ==
    IF index > Len(arg_ids1) THEN "true"
    ELSE IF index > Len(arg_ids2) THEN "panic"
    ELSE The({ IF this = "panic" \/ rest = "panic" THEN "panic"
               ELSE Bool(this = "true" /\ rest = "true")
               : this \in {match_ids(arg_ids1[index], arg_ids2[index], t1, t2)},
                 rest \in {match_call_args(arg_ids1, arg_ids2, index + 1, t1, t2)} })

relations_match(r1, r2, t1, t2) ==
    IF r1.tag # r2.tag THEN "false"
    ELSE CASE r1.tag \in LeafTags -> "true"
           [] r1.tag = "Arg" ->
                AndAlso(Bool(r1.var_name = r2.var_name),
                        match_ids(r1.type_id, r2.type_id, t1, t2))
           [] r1.tag = "Var" -> Bool(r1.var_name = r2.var_name)
           [] r1.tag = "BinaryOp" ->
                AndAlso(match_ids(r1.arg1_id, r2.arg1_id, t1, t2),
                        match_ids(r1.arg2_id, r2.arg2_id, t1, t2))
           [] r1.tag = "EndItem" -> match_ids(r1.stmt_id, r2.stmt_id, t1, t2)
           [] r1.tag = "Item" ->
                AndAlso(match_ids(r1.stmt_id, r2.stmt_id, t1, t2),
                        match_ids(r1.next_stmt_id, r2.next_stmt_id, t1, t2))
           [] r1.tag = "Compound" -> match_ids(r1.start_id, r2.start_id, t1, t2)
           [] r1.tag = "While" ->
                AndAlso(match_ids(r1.body_id, r2.body_id, t1, t2),
                        match_ids(r1.cond_id, r2.cond_id, t1, t2))
           [] r1.tag = "If" ->
                AndAlso(match_ids(r1.then_id, r2.then_id, t1, t2),
                        match_ids(r1.cond_id, r2.cond_id, t1, t2))
           [] r1.tag = "IfElse" ->
                AndAlso(match_ids(r1.then_id, r2.then_id, t1, t2),
                        AndAlso(match_ids(r1.cond_id, r2.cond_id, t1, t2),
                                match_ids(r1.else_id, r2.else_id, t1, t2)))
           [] r1.tag = "Return" -> match_ids(r1.expr_id, r2.expr_id, t1, t2)
           [] r1.tag = "Assign" ->
                AndAlso(Bool(r1.var_name = r2.var_name),
                        AndAlso(match_ids(r1.type_id, r2.type_id, t1, t2),
                                match_ids(r1.expr_id, r2.expr_id, t1, t2)))
           [] r1.tag = "FunCall" ->
                The({ IF args_result = "panic" THEN "panic"
                      ELSE Bool(args_result = "true" /\ r1.fun_name = r2.fun_name)
                      : args_result \in {match_call_args(r1.arg_ids, r2.arg_ids, 1,
                                                         t1, t2)} })
           [] r1.tag \in {"FunDef", "TransUnit"} -> "panic"

\* ast.rs replace_id_in_relation, for the leaf types it is implemented for.
replace_id_in_relation(r, id) == Leaf(r.tag, id)

(***************************************************************************)
(* ast.rs: delete_onwards.  The result is [panic, set, tree].              *)
(***************************************************************************)
Panic == [panic |-> TRUE]

RECURSIVE delete_onwards(_, _), delete_each(_, _)

\* delete_onwards on each Id in turn, the tree threaded through.
delete_each(ids, ast) ==
    IF ids = <<>> THEN [panic |-> FALSE, set |-> {}, tree |-> ast]
    ELSE The({ IF first.panic THEN Panic
               ELSE The({ IF rest.panic THEN Panic
                          ELSE [panic |-> FALSE, set |-> first.set \cup rest.set,
                                tree |-> rest.tree]
                          : rest \in {delete_each(Tail(ids), first.tree)} })
               : first \in {delete_onwards(Head(ids), ast)} })

\* Every variant: the node is removed first, then the subtrees under its Id
\* fields.  FunCall and TransUnit return the tree as it was before their
\* children were visited (ast.rs:911 and ast.rs:958 return ast, not updated_ast).
delete_onwards(node_id, ast) ==
    IF ~HasNode(ast, node_id) \/ delete_node_panics(ast, node_id) THEN Panic
    ELSE The({ The({ IF children.panic THEN Panic
                     ELSE [panic |-> FALSE,
                           set |-> {relation_to_be_deleted} \cup children.set,
                           tree |-> IF relation_to_be_deleted.tag
                                           \in {"FunCall", "TransUnit"}
                                    THEN deleted ELSE children.tree]
                     : children \in {delete_each(FieldIds(relation_to_be_deleted),
                                                 deleted)} })
               : relation_to_be_deleted \in {get_relation(ast, node_id)},
                 deleted \in {delete_node(ast, node_id)} })

(***************************************************************************)
(* ast.rs: insert_onwards.  The result is [panic, set, tree, id].          *)
(***************************************************************************)
\* The relation insert_onwards materializes for source relation r under
\* new_id with the child Ids c (in FieldIds order).  A While becomes an If
\* (ast.rs:1134).
Materialize(r, new_id, c) ==
    CASE r.tag \in LeafTags  -> replace_id_in_relation(r, new_id)
      [] r.tag = "Var"       -> Var(new_id, r.var_name)
      [] r.tag = "Arg"       -> Arg(new_id, r.var_name, c[1])
      [] r.tag = "BinaryOp"  -> BinaryOp(new_id, c[1], c[2])
      [] r.tag = "EndItem"   -> EndItem(new_id, c[1])
      [] r.tag = "Item"      -> Item(new_id, c[1], c[2])
      [] r.tag = "Compound"  -> Compound(new_id, c[1])
      [] r.tag = "While"     -> If(new_id, c[1], c[2])
      [] r.tag = "IfElse"    -> IfElse(new_id, c[1], c[2], c[3])
      [] r.tag = "If"        -> If(new_id, c[1], c[2])
      [] r.tag = "Return"    -> Return(new_id, c[1])
      [] r.tag = "Assign"    -> Assign(new_id, r.var_name, c[1], c[2])
      [] r.tag = "FunCall"   -> FunCall(new_id, r.fun_name, c)
      [] r.tag = "FunDef"    ->
            FunDef(new_id, r.fun_name, c[1], SubSeq(c, 2, Len(c) - 1), c[Len(c)])
      [] r.tag = "TransUnit" -> TransUnit(new_id, c)

RECURSIVE link_children(_, _, _)
link_children(t, node_id, child_ids) ==
    IF child_ids = <<>> THEN t
    ELSE link_children(link_child(t, node_id, Head(child_ids)), node_id, Tail(child_ids))

\* The child list of an inserted node: FunDef gets replace_children(arg ids)
\* and then links return type and body; FunCall and TransUnit get
\* replace_children; the others link their children in field order.
LinkInserted(t, r, new_id, c) ==
    CASE r.tag = "FunDef" ->
            link_children(replace_children(t, new_id, SubSeq(c, 2, Len(c) - 1)),
                          new_id, <<c[1], c[Len(c)]>>)
      [] r.tag \in {"FunCall", "TransUnit"} -> replace_children(t, new_id, c)
      [] OTHER -> link_children(t, new_id, c)

RECURSIVE insert_onwards(_, _, _), insert_each(_, _, _)

\* insert_onwards on each Id in turn, the tree threaded through.
insert_each(ids, ast, new_ast) ==
    IF ids = <<>> THEN [panic |-> FALSE, set |-> {}, tree |-> ast, ids |-> <<>>]
    ELSE The({ IF first.panic THEN Panic
               ELSE The({ IF rest.panic THEN Panic
                          ELSE [panic |-> FALSE, set |-> first.set \cup rest.set,
                                tree |-> rest.tree, ids |-> <<first.id>> \o rest.ids]
                          : rest \in {insert_each(Tail(ids), first.tree, new_ast)} })
               : first \in {insert_onwards(Head(ids), ast, new_ast)} })

\* FunCall and TransUnit take new_id from ast, the tree before their children
\* were inserted (ast.rs:1268, ast.rs:1333); every other variant takes it
\* from the tree after them.
insert_onwards(node_id, ast, new_ast) ==
    IF ~HasNode(new_ast, node_id) THEN Panic
    ELSE The({ The({
             IF children.panic THEN Panic
             ELSE The({ The({
                      [panic |-> FALSE,
                       set |-> children.set \cup {new_relation},
                       tree |-> LinkInserted(
                                    add_node(children.tree, new_id, new_relation),
                                    relation_to_be_inserted, new_id, children.ids),
                       id |-> new_id]
                      : new_relation \in {Materialize(relation_to_be_inserted, new_id,
                                                      children.ids)} })
                  : new_id \in {IF relation_to_be_inserted.tag
                                       \in {"FunCall", "TransUnit"}
                                THEN ast.max_id + 1
                                ELSE children.tree.max_id + 1} })
             : children \in {insert_each(FieldIds(relation_to_be_inserted),
                                         ast, new_ast)} })
         : relation_to_be_inserted \in {get_relation(new_ast, node_id)} })

(***************************************************************************)
(* ast.rs: compare_items.  The result is [panic, ins, del, tree, id].      *)
(***************************************************************************)
RECURSIVE compare_items(_, _, _, _)

\* The statements of both cells shape-match.
ItemsMatch(item1, item2, t1, t2) ==
    CASE item1.tag = "Item" /\ item2.tag = "Item" ->
            \* Move on to the next pair; re-point this Item if the next cell's
            \* Id has changed.
            The({ IF rec.panic THEN Panic
                  ELSE IF item1.next_stmt_id # rec.id
                  THEN The({ [panic |-> FALSE,
                              ins |-> rec.ins \cup {replacement},
                              del |-> rec.del \cup {item1},
                              tree |-> replace_children(
                                           update_relation(rec.tree, item1.id,
                                                           replacement),
                                           item1.id, <<item1.stmt_id, rec.id>>),
                              id |-> item1.id]
                             : replacement \in {Item(item1.id, item1.stmt_id, rec.id)} })
                  ELSE [rec EXCEPT !.id = item1.id]
                  : rec \in {compare_items(item1.next_stmt_id, item2.next_stmt_id,
                                           t1, t2)} })
      [] item1.tag = "EndItem" /\ item2.tag = "Item" ->
            \* Insert from new's next cell onwards, turn the EndItem into an Item.
            The({ IF inserted.panic THEN Panic
                  ELSE The({ [panic |-> FALSE,
                              ins |-> inserted.set \cup {replacement},
                              del |-> {item1},
                              tree |-> replace_children(
                                           update_relation(inserted.tree, item1.id,
                                                           replacement),
                                           item1.id, <<item1.stmt_id, inserted.id>>),
                              id |-> item1.id]
                             : replacement \in {Item(item1.id, item1.stmt_id,
                                                     inserted.id)} })
                  : inserted \in {insert_onwards(item2.next_stmt_id, t1, t2)} })
      [] item1.tag = "Item" /\ item2.tag = "EndItem" ->
            \* Delete from prev's next cell onwards, turn the Item into an EndItem.
            The({ IF deleted.panic THEN Panic
                  ELSE The({ [panic |-> FALSE,
                              ins |-> {replacement},
                              del |-> deleted.set \cup {item1},
                              tree |-> replace_children(
                                           update_relation(deleted.tree, item1.id,
                                                           replacement),
                                           item1.id, <<item1.stmt_id>>),
                              id |-> item1.id]
                             : replacement \in {EndItem(item1.id, item1.stmt_id)} })
                  : deleted \in {delete_onwards(item1.next_stmt_id, t1)} })
      [] item1.tag = "EndItem" /\ item2.tag = "EndItem" ->
            [panic |-> FALSE, ins |-> {}, del |-> {}, tree |-> t1, id |-> item1.id]

\* The statements of the two cells do not shape-match.
ItemsDiffer(item1, item2, t1, t2) ==
    CASE item2.tag = "Item" ->
            \* Keep comparing the prev cell; new's statement goes into a fresh
            \* Item.  When prev's cell is an Item the fresh Id is taken before
            \* the statement is inserted (ast.rs:492-494), when it is an
            \* EndItem after the insertion (ast.rs:554-559).
            The({ IF rec.panic THEN Panic
                  ELSE The({
                      IF inserted.panic THEN Panic
                      ELSE The({ The({
                               [panic |-> FALSE,
                                ins |-> rec.ins \cup inserted.set \cup {new_item},
                                del |-> rec.del,
                                tree |-> link_children(
                                             add_node(inserted.tree, new_id, new_item),
                                             new_id, <<inserted.id, rec.id>>),
                                id |-> new_id]
                               : new_item \in {Item(new_id, inserted.id, rec.id)} })
                           : new_id \in {IF item1.tag = "Item"
                                         THEN rec.tree.max_id + 1
                                         ELSE inserted.tree.max_id + 1} })
                      : inserted \in {insert_onwards(item2.stmt_id, rec.tree, t2)} })
                  : rec \in {compare_items(item1.id, item2.next_stmt_id, t1, t2)} })
      [] item2.tag = "EndItem" ->
            \* Item: delete prev's tail first.  Then insert new's statement and
            \* leave an EndItem that points at it.  prev's own statement is not
            \* deleted.
            The({ IF deleted.panic THEN Panic
                  ELSE The({
                      IF inserted.panic THEN Panic
                      ELSE The({
                               [panic |-> FALSE,
                                ins |-> inserted.set \cup {replacement},
                                del |-> deleted.set \cup {item1},
                                tree |-> replace_children(
                                             update_relation(inserted.tree, item1.id,
                                                             replacement),
                                             item1.id, <<inserted.id>>),
                                id |-> item1.id]
                               : replacement \in {EndItem(item1.id, inserted.id)} })
                      : inserted \in {insert_onwards(item2.stmt_id, deleted.tree, t2)} })
                  : deleted \in {IF item1.tag = "Item"
                                 THEN delete_onwards(item1.next_stmt_id, t1)
                                 ELSE [panic |-> FALSE, set |-> {}, tree |-> t1]} })

CellTags == {"Item", "EndItem"}

compare_items(item_id1, item_id2, t1, t2) ==
    IF ~HasNode(t1, item_id1) \/ ~HasNode(t2, item_id2) THEN Panic
    ELSE The({ IF item1.tag \notin CellTags \/ item2.tag \notin CellTags THEN Panic
               ELSE The({ CASE m = "panic" -> Panic
                            [] m = "true"  -> ItemsMatch(item1, item2, t1, t2)
                            [] m = "false" -> ItemsDiffer(item1, item2, t1, t2)
                          : m \in {match_ids(item1.stmt_id, item2.stmt_id, t1, t2)} })
               : item1 \in {get_relation(t1, item_id1)},
                 item2 \in {get_relation(t2, item_id2)} })

(***************************************************************************)
(* ast.rs: get_diff_relation_set.  The loops carry an accumulator          *)
(*   [panic, updated_tree, insertion_set, deletion_set]                    *)
(* and the result is [panic, ins, del, tree].                              *)
(***************************************************************************)
\* A variant of ReplaceType that replaces a type by removing its node and
\* adding the new type under a fresh Id.
ReplaceTypeUnderFreshId(acc, prev_type_id, new_type_id, prev_tree, new_ast) ==
    IF acc.panic \/ ~HasNode(prev_tree, prev_type_id) \/ ~HasNode(new_ast, new_type_id)
    THEN Panic
    ELSE The({ The({
             CASE m = "panic" -> Panic
               [] m = "true" -> acc
               [] m = "false" ->
                     The({ [acc EXCEPT
                               !.deletion_set = @ \cup {prev_type},
                               !.updated_tree =
                                   add_node(delete_node(@, prev_type_id),
                                            replacement.id, replacement),
                               !.insertion_set = @ \cup {replacement}]
                           : replacement \in {replace_id_in_relation(
                                                  new_type,
                                                  acc.updated_tree.max_id + 1)} })
             : m \in {relations_match(prev_type, new_type, prev_tree, new_ast)} })
         : prev_type \in {get_relation(prev_tree, prev_type_id)},
           new_type \in {get_relation(new_ast, new_type_id)} })

\* Return type, or the type of an argument (ast.rs:211-232, 257-271): a type
\* that does not shape-match is replaced under the previous Id.
ReplaceType(acc, prev_type_id, new_type_id, prev_tree, new_ast) ==
    IF acc.panic \/ ~HasNode(prev_tree, prev_type_id) \/ ~HasNode(new_ast, new_type_id)
    THEN Panic
    ELSE The({ The({
             CASE m = "panic" -> Panic
               [] m = "true" -> acc
               [] m = "false" ->
                     IF new_type.tag \notin LeafTags THEN Panic
                     ELSE The({ [acc EXCEPT
                                    !.deletion_set = @ \cup {prev_type},
                                    !.updated_tree =
                                        update_relation(@, prev_type_id, replacement),
                                    !.insertion_set = @ \cup {replacement}]
                                : replacement \in {replace_id_in_relation(
                                                       new_type, prev_type_id)} })
             : m \in {relations_match(prev_type, new_type, prev_tree, new_ast)} })
         : prev_type \in {get_relation(prev_tree, prev_type_id)},
           new_type \in {get_relation(new_ast, new_type_id)} })

\* An argument present at the same index in both lists (ast.rs:240-288).
\* A changed name replaces the Arg relation; the old one is not recorded in
\* the deletion set.
CompareArg(acc, prev_arg_id, new_arg_id, prev_tree, new_ast) ==
    IF acc.panic \/ ~HasNode(prev_tree, prev_arg_id) \/ ~HasNode(new_ast, new_arg_id)
    THEN Panic
    ELSE The({
         IF prev_arg.tag # "Arg" \/ new_arg.tag # "Arg" THEN Panic
         ELSE The({
              IF typed.panic THEN Panic
              ELSE IF prev_arg.var_name # new_arg.var_name
              THEN The({ [typed EXCEPT
                             !.updated_tree =
                                 replace_children(
                                     update_relation(@, prev_arg.id, replacement),
                                     prev_arg.id, <<prev_arg.type_id>>),
                             !.insertion_set = @ \cup {replacement}]
                         : replacement \in {Arg(prev_arg.id, new_arg.var_name,
                                                prev_arg.type_id)} })
              ELSE typed
              : typed \in {ReplaceType(acc, prev_arg.type_id, new_arg.type_id,
                                       prev_tree, new_ast)} })
         : prev_arg \in {get_relation(prev_tree, prev_arg_id)},
           new_arg \in {get_relation(new_ast, new_arg_id)} })

RECURSIVE CompareArgs(_, _, _, _, _, _)
\* for (index, prev_arg_id) in prev_arg_ids.iter().enumerate() (ast.rs:238-299).
\* The accumulator also carries remaining_args and args_have_changed.  An
\* argument new still has is compared, any other is deleted.
CompareArgs(acc, index, prev_arg_ids, new_arg_ids, prev_tree, new_ast) ==
    IF acc.panic THEN Panic
    ELSE IF index > Len(prev_arg_ids) THEN acc
    ELSE The({
         IF step.panic THEN Panic
         ELSE CompareArgs(step, index + 1, prev_arg_ids, new_arg_ids, prev_tree, new_ast)
         : step \in {
             IF index <= Len(new_arg_ids)
             THEN The({ IF compared.panic THEN Panic
                        ELSE [compared EXCEPT
                                 !.remaining_args = Append(@, prev_arg_ids[index])]
                        : compared \in {CompareArg(acc, prev_arg_ids[index],
                                                   new_arg_ids[index],
                                                   prev_tree, new_ast)} })
             ELSE The({ IF deleted.panic THEN Panic
                        ELSE [acc EXCEPT !.deletion_set = @ \cup deleted.set,
                                         !.updated_tree = deleted.tree,
                                         !.args_have_changed = TRUE]
                        : deleted \in {delete_onwards(prev_arg_ids[index],
                                                      acc.updated_tree)} }) } })

RECURSIVE InsertArgs(_, _, _, _, _)
\* The arguments new has beyond prev's (ast.rs:301-318).
InsertArgs(acc, index, prev_arg_ids, new_arg_ids, new_ast) ==
    IF acc.panic THEN Panic
    ELSE IF index > Len(new_arg_ids) THEN acc
    ELSE The({
         IF step.panic THEN Panic
         ELSE InsertArgs(step, index + 1, prev_arg_ids, new_arg_ids, new_ast)
         : step \in {
             IF index <= Len(prev_arg_ids) THEN acc
             ELSE The({ IF inserted.panic THEN Panic
                        ELSE [acc EXCEPT !.insertion_set = @ \cup inserted.set,
                                         !.updated_tree = inserted.tree,
                                         !.remaining_args = Append(@, inserted.id),
                                         !.args_have_changed = TRUE]
                        : inserted \in {insert_onwards(new_arg_ids[index],
                                                       acc.updated_tree, new_ast)} }) } })

\* A replacement of the FunDef that keeps the arg_ids prev had.
ReplaceFunDefKeepingArgs(acc, prev_fun, prev_tree) ==
    IF acc.panic THEN Panic
    ELSE IF ~acc.args_have_changed THEN acc
    ELSE IF ~HasNode(prev_tree, prev_fun.id) THEN Panic
    ELSE The({ [acc EXCEPT
                   !.deletion_set = @ \cup {get_relation(prev_tree, prev_fun.id)},
                   !.insertion_set = @ \cup {replacement},
                   !.updated_tree = update_relation(@, prev_fun.id, replacement)]
               : replacement \in {FunDef(prev_fun.id, prev_fun.fun_name,
                                         prev_fun.return_type_id, prev_fun.arg_ids,
                                         prev_fun.body_id)} })

\* The FunDef is replaced when arguments were deleted or inserted
\* (ast.rs:319-334).
ReplaceFunDef(acc, prev_fun, prev_tree) ==
    IF acc.panic THEN Panic
    ELSE IF ~acc.args_have_changed THEN acc
    ELSE IF ~HasNode(prev_tree, prev_fun.id) THEN Panic
    ELSE The({ [acc EXCEPT
                   !.deletion_set = @ \cup {get_relation(prev_tree, prev_fun.id)},
                   !.insertion_set = @ \cup {replacement},
                   !.updated_tree =
                       link_children(
                           replace_children(
                               update_relation(@, prev_fun.id, replacement),
                               prev_fun.id, acc.remaining_args),
                           prev_fun.id, <<prev_fun.return_type_id, prev_fun.body_id>>)]
               : replacement \in {FunDef(prev_fun.id, prev_fun.fun_name,
                                         prev_fun.return_type_id, acc.remaining_args,
                                         prev_fun.body_id)} })

\* Compare function bodies (ast.rs:336-366); the head Id compare_items
\* returns is dropped.
CompareBodies(acc, prev_fun, new_fun, prev_tree, new_ast) ==
    IF acc.panic \/ ~HasNode(prev_tree, prev_fun.body_id)
                 \/ ~HasNode(new_ast, new_fun.body_id)
    THEN Panic
    ELSE The({
         IF prev_body.tag # "Compound" \/ new_body.tag # "Compound" THEN Panic
         ELSE The({ IF compared.panic THEN Panic
                    ELSE [acc EXCEPT
                             !.updated_tree = compared.tree,
                             !.insertion_set = @ \cup compared.ins,
                             !.deletion_set = @ \cup compared.del]
                    : compared \in {compare_items(prev_body.start_id, new_body.start_id,
                                                  acc.updated_tree, new_ast)} })
         : prev_body \in {get_relation(prev_tree, prev_fun.body_id)},
           new_body \in {get_relation(new_ast, new_fun.body_id)} })

\* A prev function and the new function of the same name (ast.rs:208-371):
\* return type, arguments prev has, arguments only new has, the FunDef, bodies.
MatchedFun(acc, prev_fun, new_fun, prev_tree, new_ast) ==
    The({ IF done.panic THEN Panic
          ELSE [acc EXCEPT
                   !.updated_tree = done.updated_tree,
                   !.insertion_set = done.insertion_set,
                   !.deletion_set = done.deletion_set,
                   !.matching_new_funs = Append(@, new_fun.id),
                   !.fun_to_be_deleted = (prev_fun.id :> FALSE) @@ @]
          : done \in {
              CompareBodies(
                  ReplaceFunDef(
                      InsertArgs(
                          CompareArgs(
                              ReplaceType([panic |-> FALSE,
                                           updated_tree |-> acc.updated_tree,
                                           insertion_set |-> acc.insertion_set,
                                           deletion_set |-> acc.deletion_set,
                                           remaining_args |-> <<>>,
                                           args_have_changed |-> FALSE],
                                          prev_fun.return_type_id,
                                          new_fun.return_type_id, prev_tree, new_ast),
                              1, prev_fun.arg_ids, new_fun.arg_ids, prev_tree, new_ast),
                          1, prev_fun.arg_ids, new_fun.arg_ids, new_ast),
                      prev_fun, prev_tree),
                  prev_fun, new_fun, prev_tree, new_ast)} })

RECURSIVE NewSearch(_, _, _, _, _)
\* 'new_search: the first new function of the same name, if any (ast.rs:196-376).
NewSearch(acc, prev_fun, index, prev_tree, new_ast) ==
    The({ IF index > Len(new_children) THEN acc
          ELSE IF ~HasNode(new_ast, new_children[index]) THEN Panic
          ELSE The({ IF new_fun.tag # "FunDef" THEN Panic
                     ELSE IF prev_fun.fun_name = new_fun.fun_name
                     THEN MatchedFun(acc, prev_fun, new_fun, prev_tree, new_ast)
                     ELSE NewSearch(acc, prev_fun, index + 1, prev_tree, new_ast)
                     : new_fun \in {get_relation(new_ast, new_children[index])} })
          : new_children \in {get_node(new_ast, get_root(new_ast)).children} })

RECURSIVE PrevFuns(_, _, _, _)
\* for fun_id in &prev_root.children (ast.rs:186-380).
PrevFuns(acc, index, prev_tree, new_ast) ==
    IF acc.panic THEN Panic
    ELSE The({
         IF index > Len(prev_children) THEN acc
         ELSE IF ~HasNode(prev_tree, prev_children[index]) THEN Panic
         ELSE The({ IF prev_fun.tag # "FunDef" THEN Panic
                    ELSE PrevFuns(
                             NewSearch([acc EXCEPT !.fun_to_be_deleted =
                                                       (prev_fun.id :> TRUE) @@ @],
                                       prev_fun, 1, prev_tree, new_ast),
                             index + 1, prev_tree, new_ast)
                    : prev_fun \in {get_relation(prev_tree, prev_children[index])} })
         : prev_children \in {get_node(prev_tree, get_root(prev_tree)).children} })

RECURSIVE DeleteFuns(_, _)
\* for (prev_fun_id, indicator) in fun_to_be_deleted (ast.rs:383-393), in the
\* order the HashMap happens to yield its keys.
DeleteFuns(acc, order) ==
    IF acc.panic THEN Panic
    ELSE IF order = <<>> THEN acc
    ELSE IF acc.fun_to_be_deleted[Head(order)]
    THEN The({ IF deleted.panic THEN Panic
               ELSE DeleteFuns([acc EXCEPT !.updated_tree = deleted.tree,
                                           !.deletion_set = @ \cup deleted.set],
                               Tail(order))
               : deleted \in {delete_onwards(Head(order), acc.updated_tree)} })
    ELSE DeleteFuns([acc EXCEPT !.remaining_funs = Append(@, Head(order))], Tail(order))

RECURSIVE InsertFuns(_, _, _)
\* for new_fun_id in &new_root.children (ast.rs:395-405).
InsertFuns(acc, index, new_ast) ==
    IF acc.panic THEN Panic
    ELSE The({
         IF index > Len(new_children) THEN acc
         ELSE IF Contains(acc.matching_new_funs, new_children[index])
         THEN InsertFuns(acc, index + 1, new_ast)
         ELSE The({ IF inserted.panic THEN Panic
                    ELSE InsertFuns([acc EXCEPT
                                        !.updated_tree = inserted.tree,
                                        !.insertion_set = @ \cup inserted.set,
                                        !.remaining_funs = Append(@, inserted.id)],
                                    index + 1, new_ast)
                    : inserted \in {insert_onwards(new_children[index],
                                                   acc.updated_tree, new_ast)} })
         : new_children \in {get_node(new_ast, get_root(new_ast)).children} })

\* A root replacement that compares the lists of function Ids position by
\* position instead of as sets.
ReplaceRootComparingOrder(acc, prev_tree) ==
    IF acc.panic THEN Panic
    ELSE The({
         IF acc.remaining_funs =
                (IF root.tag = "TransUnit" THEN root.body_ids ELSE <<>>)
         THEN acc
         ELSE The({ [acc EXCEPT
                        !.deletion_set = @ \cup {root},
                        !.insertion_set = @ \cup {final_root},
                        !.updated_tree =
                            replace_children(
                                update_relation(@, get_root(prev_tree), final_root),
                                get_root(prev_tree), acc.remaining_funs)]
                    : final_root \in {TransUnit(get_root(prev_tree),
                                                acc.remaining_funs)} })
         : root \in {get_relation(prev_tree, get_root(prev_tree))} })

\* Replace the root when the set of function Ids has changed (ast.rs:406-422).
ReplaceRoot(acc, prev_tree) ==
    IF acc.panic THEN Panic
    ELSE The({
         IF Range(acc.remaining_funs) =
                Range(IF root.tag = "TransUnit" THEN root.body_ids ELSE <<>>)
         THEN acc
         ELSE The({ [acc EXCEPT
                        !.deletion_set = @ \cup {root},
                        !.insertion_set = @ \cup {final_root},
                        !.updated_tree =
                            replace_children(
                                update_relation(@, get_root(prev_tree), final_root),
                                get_root(prev_tree), acc.remaining_funs)]
                    : final_root \in {TransUnit(get_root(prev_tree),
                                                acc.remaining_funs)} })
         : root \in {get_relation(prev_tree, get_root(prev_tree))} })

\* The keys fun_to_be_deleted ends up with: the Ids of prev's functions.
FunKeys(prev_tree) ==
    IF ~HasNode(prev_tree, get_root(prev_tree)) THEN {}
    ELSE {get_relation(prev_tree, c).id :
             c \in {d \in Range(get_node(prev_tree, get_root(prev_tree)).children) :
                       HasNode(prev_tree, d)}}

\* order is the order in which the HashMap fun_to_be_deleted is iterated.
get_diff_relation_set(prev_tree, new_ast, order) ==
    IF ~HasNode(prev_tree, get_root(prev_tree)) \/ ~HasNode(new_ast, get_root(new_ast))
    THEN Panic
    ELSE The({ IF final.panic THEN Panic
               ELSE [panic |-> FALSE, ins |-> final.insertion_set,
                     del |-> final.deletion_set, tree |-> final.updated_tree]
               : final \in {
                   ReplaceRoot(
                       InsertFuns(
                           DeleteFuns(
                               PrevFuns([panic |-> FALSE,
                                         updated_tree |-> prev_tree,
                                         insertion_set |-> {},
                                         deletion_set |-> {},
                                         fun_to_be_deleted |-> EmptyArena,
                                         matching_new_funs |-> <<>>,
                                         remaining_funs |-> <<>>],
                                        1, prev_tree, new_ast),
                               order),
                           1, new_ast),
                       prev_tree)} })

(***************************************************************************)
(* standard_type_checker.rs: the from-scratch baseline.  A result is       *)
(* [panic |-> TRUE] or [panic |-> FALSE, type, var_context]; contexts are  *)
(* functions from names to types.                                          *)
(***************************************************************************)
Typed(type, var_context) ==
    [panic |-> FALSE, type |-> type, var_context |-> var_context]

type_check_literal(t, id) ==
    IF ~HasNode(t, id) THEN "panic"
    ELSE CASE get_relation(t, id).tag = "Void" -> "VoidType"
           [] get_relation(t, id).tag = "Int" -> "IntType"
           [] get_relation(t, id).tag = "Float" -> "FloatType"
           [] get_relation(t, id).tag = "Char" -> "CharType"
           [] OTHER -> "panic"

RECURSIVE type_check_statement(_, _, _, _, _)
RECURSIVE type_check_call_args(_, _, _, _, _, _, _)
\* for arg_id in arg_ids, counting with counter (standard_type_checker.rs:248-261).
type_check_call_args(arg_ids, counter, fun_type, ast, var_context, fun_context, current_fun) ==
    IF counter > Len(arg_ids) THEN Typed(fun_type.return_type, var_context)
    ELSE The({ IF arg.panic THEN Panic
               ELSE IF counter > Len(fun_type.arg_types) THEN Panic
               ELSE IF fun_type.arg_types[counter] # arg.type
               THEN Typed("ErrorType", arg.var_context)
               ELSE type_check_call_args(arg_ids, counter + 1, fun_type, ast,
                                         var_context, fun_context, current_fun)
               : arg \in {type_check_statement(arg_ids[counter], ast, var_context,
                                               fun_context, current_fun)} })

\* The Assign arm (standard_type_checker.rs:198-217).
type_check_assign(node, ast, var_context, fun_context, current_fun) ==
    The({ The({ IF assign_type = "panic" \/ expr.panic THEN Panic
                ELSE IF assign_type = expr.type
                THEN Typed("OkType", (node.var_name :> assign_type) @@ expr.var_context)
                ELSE Typed("ErrorType", var_context)
                : expr \in {type_check_statement(node.expr_id, ast, var_context,
                                                 fun_context, current_fun)} })
          : assign_type \in {type_check_literal(ast, node.type_id)} })

\* The Return arm (standard_type_checker.rs:218-237).
type_check_return(node, ast, var_context, fun_context, current_fun) ==
    The({ IF expr.panic \/ current_fun \notin DOMAIN fun_context THEN Panic
          ELSE IF fun_context[current_fun].return_type = expr.type
          THEN Typed("OkType", expr.var_context)
          ELSE Typed("ErrorType", var_context)
          : expr \in {type_check_statement(node.expr_id, ast, var_context,
                                           fun_context, current_fun)} })

\* The BinaryOp arm (standard_type_checker.rs:263-291).
type_check_binary_op(node, ast, var_context, fun_context, current_fun) ==
    The({ IF arg1.panic THEN Panic
          ELSE The({ IF arg2.panic THEN Panic
                     ELSE IF arg1.type = arg2.type /\ arg1.type \in {"IntType", "FloatType"}
                     THEN Typed(arg1.type, arg2.var_context)
                     ELSE Typed("ErrorType", var_context)
                     : arg2 \in {type_check_statement(node.arg2_id, ast, arg1.var_context,
                                                      fun_context, current_fun)} })
          : arg1 \in {type_check_statement(node.arg1_id, ast, var_context,
                                           fun_context, current_fun)} })

type_check_statement(node_id, ast, var_context, fun_context, current_fun) ==
    IF ~HasNode(ast, node_id) THEN Panic
    ELSE LET node == get_relation(ast, node_id)
         IN CASE node.tag = "Assign" ->
                    type_check_assign(node, ast, var_context, fun_context, current_fun)
              [] node.tag = "Return" ->
                    type_check_return(node, ast, var_context, fun_context, current_fun)
              [] node.tag = "FunCall" ->
                    IF node.fun_name \notin DOMAIN fun_context THEN Panic
                    ELSE type_check_call_args(node.arg_ids, 1, fun_context[node.fun_name],
                                              ast, var_context, fun_context, current_fun)
              [] node.tag = "BinaryOp" ->
                    type_check_binary_op(node, ast, var_context, fun_context, current_fun)
              [] node.tag = "Var" ->
                    IF node.var_name \in DOMAIN var_context
                    THEN Typed(var_context[node.var_name], var_context)
                    ELSE Panic
              [] node.tag = "Void" -> Typed("VoidType", var_context)
              [] node.tag = "Int" -> Typed("IntType", var_context)
              [] node.tag = "Float" -> Typed("FloatType", var_context)
              [] node.tag = "Char" -> Typed("CharType", var_context)
              [] OTHER -> Panic

RECURSIVE type_check_item(_, _, _, _, _)
\* Returns a type, or "panic".
type_check_item(node_id, ast, var_context, fun_context, current_fun) ==
    IF ~HasNode(ast, node_id) THEN "panic"
    ELSE LET node == get_relation(ast, node_id)
         IN CASE node.tag = "Item" ->
                    The({ IF stmt.panic THEN "panic"
                          ELSE CASE stmt.type = "OkType" ->
                                        type_check_item(node.next_stmt_id, ast,
                                                        stmt.var_context, fun_context,
                                                        current_fun)
                                 [] stmt.type = "ErrorType" -> "ErrorType"
                                 [] OTHER -> "panic"
                          : stmt \in {type_check_statement(node.stmt_id, ast, var_context,
                                                           fun_context, current_fun)} })
              [] node.tag = "EndItem" ->
                    The({ IF stmt.panic THEN "panic" ELSE stmt.type
                          : stmt \in {type_check_statement(node.stmt_id, ast, var_context,
                                                           fun_context, current_fun)} })
              [] OTHER -> "panic"

type_check_compound(node_id, ast, var_context, fun_context, current_fun) ==
    IF ~HasNode(ast, node_id) THEN "panic"
    ELSE IF get_relation(ast, node_id).tag = "Compound"
    THEN type_check_item(get_relation(ast, node_id).start_id, ast, var_context,
                         fun_context, current_fun)
    ELSE "panic"

\* One turn of the loop of bind_arguments (standard_type_checker.rs:104-118).
bind_argument(before, arg_id, ast) ==
    IF before.panic \/ ~HasNode(ast, arg_id) THEN Panic
    ELSE IF get_relation(ast, arg_id).tag # "Arg" THEN Panic
    ELSE The({ IF arg_type = "panic" THEN Panic
               ELSE [panic |-> FALSE,
                     var_context |-> (get_relation(ast, arg_id).var_name :> arg_type)
                                         @@ before.var_context,
                     arg_types |-> Append(before.arg_types, arg_type)]
               : arg_type \in {type_check_literal(ast, get_relation(ast, arg_id).type_id)} })

RECURSIVE bind_arguments(_, _, _)
\* [panic, var_context, arg_types]; arguments are bound left to right, so
\* the recursion peels the last one.
bind_arguments(arg_ids, var_context, ast) ==
    IF arg_ids = <<>>
    THEN [panic |-> FALSE, var_context |-> var_context, arg_types |-> <<>>]
    ELSE bind_argument(bind_arguments(SubSeq(arg_ids, 1, Len(arg_ids) - 1),
                                      var_context, ast),
                       arg_ids[Len(arg_ids)], ast)

type_check_fun_def(node_id, ast, var_context, fun_context) ==
    IF ~HasNode(ast, node_id) THEN "panic"
    ELSE LET node == get_relation(ast, node_id)
         IN IF node.tag # "FunDef" THEN "panic"
            ELSE The({ The({ IF return_type = "panic" \/ bound.panic THEN "panic"
                             ELSE type_check_compound(
                                      node.body_id, ast, bound.var_context,
                                      (node.fun_name :> [return_type |-> return_type,
                                                         arg_types |-> bound.arg_types])
                                          @@ fun_context,
                                      node.fun_name)
                             : bound \in {bind_arguments(node.arg_ids, var_context, ast)} })
                       : return_type \in {type_check_literal(ast, node.return_type_id)} })

RECURSIVE type_check_bodies(_, _, _)
\* for body_id in body_ids (standard_type_checker.rs:38-54): "OkType",
\* "ErrorType" or "panic".
type_check_bodies(body_ids, ast, body_correct) ==
    IF body_ids = <<>> THEN (IF body_correct THEN "OkType" ELSE "ErrorType")
    ELSE The({ CASE type = "ErrorType" -> type_check_bodies(Tail(body_ids), ast, FALSE)
                 [] type = "OkType" -> type_check_bodies(Tail(body_ids), ast, body_correct)
                 [] OTHER -> "panic"
               : type \in {type_check_fun_def(Head(body_ids), ast, EmptyArena, EmptyArena)} })

type_check_trans_unit(node_id, ast) ==
    IF ~HasNode(ast, node_id) THEN "panic"
    ELSE IF get_relation(ast, node_id).tag = "TransUnit"
    THEN type_check_bodies(get_relation(ast, node_id).body_ids, ast, TRUE)
    ELSE "panic"

\* "true", "false" or "panic".
type_check(ast) ==
    The({ IF type = "panic" THEN "panic" ELSE Bool(type = "OkType")
          : type \in {type_check_trans_unit(get_root(ast), ast)} })

(***************************************************************************)
(* ddlog_interface.rs: conversion of relations and the engine transaction. *)
(* The engine's input store is a set of updates' payloads [relid, v].      *)
(***************************************************************************)
\* The relation a variant is sent to: the variant's own name.
get_equiv_relid(ast_relation) == ast_relation.tag

\* The record sent for a relation: the same fields, except that a Float is
\* sent as a Void record (ddlog_interface.rs:230-233).
get_equiv_ddvalue(ast_relation) ==
    IF ast_relation.tag = "Float" THEN Leaf("Void", ast_relation.id)
    ELSE ast_relation

\* Every update is an insertion, whatever update_type says: the first match
\* arm binds any value (ddlog_interface.rs:49-53).
convert_relation(ast_relation, update_type) ==
    [kind |-> "Insert",
     relid |-> get_equiv_relid(ast_relation),
     v |-> get_equiv_ddvalue(ast_relation)]

\* The store after applying a set of updates.
apply_updates(engine_store, updates) ==
    (engine_store \cup {[relid |-> u.relid, v |-> u.v] : u \in {w \in updates : w.kind = "Insert"}})
        \ {[relid |-> u.relid, v |-> u.v] : u \in {w \in updates : w.kind = "DeleteValue"}}

\* One transaction: only insert_set is converted and applied; delete_set is
\* not used (ddlog_interface.rs:22-40).
run_ddlog_type_checker(engine_store, insert_set, delete_set) ==
    LET insert_updates == {convert_relation(x, "InsertUpdate") : x \in insert_set}
    IN apply_updates(engine_store, insert_updates)

(***************************************************************************)
(* The engine's rules (spec section 4.4), evaluated under set semantics    *)
(* over the store: a fact is a record of the relation it was sent to.      *)
(* Derivations are followed to depth MaxDepth.                             *)
(***************************************************************************)
MaxDepth == 12

Facts(engine_store, relid, id) ==
    {d.v : d \in {x \in engine_store : x.relid = relid /\ x.v.id = id}}

LiteralRels == [Void |-> "void", Int |-> "int", Float |-> "float", Char |-> "char"]

\* The types of the literal facts at id.
LiteralTypes(engine_store, id) ==
    {LiteralRels[relid] : relid \in {x \in LeafTags : Facts(engine_store, x, id) # {}}}

RECURSIVE TypeOf(_, _, _, _)
\* The set of non-error types the type-of fact gives node id under the
\* name -> type environment env (a set of <<name, type>>).
TypeOf(engine_store, env, id, depth) ==
    IF depth = 0 THEN {}
    ELSE LiteralTypes(engine_store, id)
         \cup {p[2] : p \in {q \in env :
                   \E v \in Facts(engine_store, "Var", id) : v.var_name = q[1]}}
         \cup {t \in {"int", "float"} :
                  \E v \in Facts(engine_store, "BinaryOp", id) :
                      /\ t \in TypeOf(engine_store, env, v.arg1_id, depth - 1)
                      /\ t \in TypeOf(engine_store, env, v.arg2_id, depth - 1)}
         \cup UNION {
                  UNION {
                      IF /\ f.relid = "FunDef"
                         /\ f.v.fun_name = v.fun_name
                         /\ Len(f.v.arg_ids) = Len(v.arg_ids)
                         /\ \A i \in 1..Len(v.arg_ids) :
                               \E a \in Facts(engine_store, "Arg", f.v.arg_ids[i]) :
                                   LiteralTypes(engine_store, a.type_id)
                                       \cap TypeOf(engine_store, env, v.arg_ids[i], depth - 1)
                                   # {}
                      THEN LiteralTypes(engine_store, f.v.return_type_id)
                      ELSE {} : f \in engine_store}
                  : v \in Facts(engine_store, "FunCall", id)}

RECURSIVE Bindings(_, _, _)
\* The <<name, type>> pairs the Assign facts reachable from id contribute.
Bindings(engine_store, id, depth) ==
    IF depth = 0 THEN {}
    ELSE UNION {
             (IF d.relid = "Assign"
              THEN {<<d.v.var_name, t>> : t \in LiteralTypes(engine_store, d.v.type_id)}
              ELSE {})
             \cup UNION {Bindings(engine_store, c, depth - 1) :
                            c \in IF d.relid \in {"Compound", "Item", "EndItem", "If",
                                                  "IfElse", "While"}
                                  THEN Range(FieldIds(d.v)) ELSE {}}
             : d \in {x \in engine_store : x.v.id = id}}

RECURSIVE OkStmt(_, _, _, _, _)
\* Statement or chain cell id is well-typed in a function returning one of
\* return_types.
OkStmt(engine_store, env, return_types, id, depth) ==
    /\ depth > 0
    /\ \/ \E v \in Facts(engine_store, "Assign", id) :
              LiteralTypes(engine_store, v.type_id)
                  \cap TypeOf(engine_store, env, v.expr_id, depth - 1) # {}
       \/ \E v \in Facts(engine_store, "Return", id) :
              return_types \cap TypeOf(engine_store, env, v.expr_id, depth - 1) # {}
       \/ \E v \in Facts(engine_store, "If", id) \cup Facts(engine_store, "While", id) :
              /\ "int" \in TypeOf(engine_store, env, v.cond_id, depth - 1)
              /\ OkStmt(engine_store, env, return_types,
                        IF v.tag = "If" THEN v.then_id ELSE v.body_id, depth - 1)
       \/ \E v \in Facts(engine_store, "IfElse", id) :
              /\ "int" \in TypeOf(engine_store, env, v.cond_id, depth - 1)
              /\ OkStmt(engine_store, env, return_types, v.then_id, depth - 1)
              /\ OkStmt(engine_store, env, return_types, v.else_id, depth - 1)
       \/ \E v \in Facts(engine_store, "Compound", id) :
              OkStmt(engine_store, env, return_types, v.start_id, depth - 1)
       \/ \E v \in Facts(engine_store, "Item", id) :
              /\ OkStmt(engine_store, env, return_types, v.stmt_id, depth - 1)
              /\ OkStmt(engine_store, env, return_types, v.next_stmt_id, depth - 1)
       \/ \E v \in Facts(engine_store, "EndItem", id) :
              OkStmt(engine_store, env, return_types, v.stmt_id, depth - 1)

\* A FunDef fact is well-typed iff its body is, under the environment of its
\* arguments and the assignments of its body.
OkFunDef(engine_store, f) ==
    LET env == UNION {{<<a.var_name, t>> : t \in LiteralTypes(engine_store, a.type_id)} :
                         a \in UNION {Facts(engine_store, "Arg", f.arg_ids[i]) :
                                         i \in 1..Len(f.arg_ids)}}
    IN OkStmt(engine_store, env \cup Bindings(engine_store, f.body_id, MaxDepth),
              LiteralTypes(engine_store, f.return_type_id), f.body_id, MaxDepth)

\* OkProgram: a TransUnit is present and every FunDef it lists is well-typed.
OkProgram(engine_store) ==
    \E d \in engine_store :
        /\ d.relid = "TransUnit"
        /\ \A i \in 1..Len(d.v.body_ids) :
              \E f \in Facts(engine_store, "FunDef", d.v.body_ids[i]) :
                  OkFunDef(engine_store, f)

(***************************************************************************)
(* The files the watched path may hold.                                    *)
(***************************************************************************)
SourceFile(unit) == [ok |-> TRUE, unit |-> unit]

Unparsable == [ok |-> FALSE, unit |-> <<>>]

Return1 == ReturnStmt(Constant("Integer"))

ReturnFloat == ReturnStmt(Constant("Float"))

\* int f() { return 1; }
IntF == FunctionDefinition("Int", "f", <<>>, <<Return1>>)

\* int g() { return 1; }
IntG == FunctionDefinition("Int", "g", <<>>, <<Return1>>)

Programs ==
    { SourceFile(<<IntF>>),
      \* void f() { return 1; }
      SourceFile(<<FunctionDefinition("Void", "f", <<>>, <<Return1>>)>>),
      \* int f() { return 1; return 1.0; }
      SourceFile(<<FunctionDefinition("Int", "f", <<>>, <<Return1, ReturnFloat>>)>>),
      \* int f() { return 1.0; }
      SourceFile(<<FunctionDefinition("Int", "f", <<>>, <<ReturnFloat>>)>>),
      \* int f() { int x = 1; return 1; return 1.0; }
      SourceFile(<<FunctionDefinition("Int", "f", <<>>,
                      <<Declaration("Int", "x", Constant("Integer")),
                        Return1, ReturnFloat>>)>>),
      \* int f(int a) { return a; }
      SourceFile(<<FunctionDefinition("Int", "f", <<ParameterDeclaration("Int", "a")>>,
                      <<ReturnStmt(Identifier("a"))>>)>>),
      \* int f(int b) { return b; }
      SourceFile(<<FunctionDefinition("Int", "f", <<ParameterDeclaration("Int", "b")>>,
                      <<ReturnStmt(Identifier("b"))>>)>>),
      \* int f(int a) { return f(a); }
      SourceFile(<<FunctionDefinition("Int", "f", <<ParameterDeclaration("Int", "a")>>,
                      <<ReturnStmt(Call("f", <<Identifier("a")>>))>>)>>),
      \* int f() { return 1; }  int g() { return 1; }
      SourceFile(<<IntF, IntG>>),
      \* int g() { return 1; }  int f() { return 1; }
      SourceFile(<<IntG, IntF>>),
      \* int f() { return 1; }  int f() { return 1; }
      SourceFile(<<IntF, IntF>>),
      \* int f() { while (1) { return 1; } return 1; }
      SourceFile(<<FunctionDefinition("Int", "f", <<>>,
                      <<WhileStmt(Constant("Integer"), CompoundStmt(<<Return1>>)),
                        Return1>>)>>),
      \* int f(int a) { return 1; }
      SourceFile(<<FunctionDefinition("Int", "f", <<ParameterDeclaration("Int", "a")>>,
                      <<Return1>>)>>),
      \* int f(int b) { return 1; }
      SourceFile(<<FunctionDefinition("Int", "f", <<ParameterDeclaration("Int", "b")>>,
                      <<Return1>>)>>),
      \* int f() { return 1; }  int g(int a) { return g(a); }
      SourceFile(<<IntF,
                   FunctionDefinition("Int", "g", <<ParameterDeclaration("Int", "a")>>,
                      <<ReturnStmt(Call("g", <<Identifier("a")>>))>>)>>),
      \* int g(int a) { return g(a); }  int f() { return 1; }
      SourceFile(<<FunctionDefinition("Int", "g", <<ParameterDeclaration("Int", "a")>>,
                      <<ReturnStmt(Call("g", <<Identifier("a")>>))>>),
                   IntF>>),
      \* void f() { }
      SourceFile(<<FunctionDefinition("Void", "f", <<>>, <<>>)>>),
      \* int f(int a, int b) { return 1; }
      SourceFile(<<FunctionDefinition("Int", "f", <<ParameterDeclaration("Int", "a"),
                                                    ParameterDeclaration("Int", "b")>>,
                      <<Return1>>)>>) }

Files == Programs \cup {Unparsable}

\* Write events handled in one run.
MaxSteps == 2

(***************************************************************************)
(* lib.rs: the incremental driver.  last records the latest iteration.     *)
(***************************************************************************)
NoIteration ==
    [event |-> "none", panic |-> FALSE, file |-> Unparsable, order |-> <<>>,
     parsed |-> TreeNew, diff_prev |-> TreeNew, diff_new |-> TreeNew,
     maintained |-> TreeNew,
     ins |-> {}, del |-> {}, upd |-> TreeNew, store_before |-> {},
     result_before |-> "none"]

Init ==
    /\ pc = "start"
    /\ prev_ast = TreeNew
    /\ prev_result = "none"
    /\ store = {}
    /\ last = NoIteration
    /\ steps = 0

\* single_datalog_type_check, whose verdict and tree start incremental_type_check.
Start(file) ==
    /\ pc = "start"
    /\ \E parsed \in {parse_file_into_ast(file)} :
          IF parsed.panic
          THEN /\ pc' = "aborted"
               /\ last' = [NoIteration EXCEPT !.event = "start", !.panic = TRUE,
                                              !.file = file]
               /\ UNCHANGED <<prev_ast, prev_result, store, steps>>
          ELSE \E insert_set \in {get_initial_relation_set(parsed.tree)} :
               \E engine_store \in {run_ddlog_type_checker({}, insert_set, {})} :
                  /\ pc' = "watching"
                  /\ prev_ast' = parsed.tree
                  /\ store' = engine_store
                  /\ prev_result' = Bool(OkProgram(engine_store))
                  /\ last' = [NoIteration EXCEPT !.event = "start", !.file = file,
                                                 !.parsed = parsed.tree,
                                                 !.ins = insert_set,
                                                 !.upd = parsed.tree]
                  /\ UNCHANGED steps

\* One DebouncedEvent::Write in incremental_type_check (lib.rs:77-95).  A
\* panic in the parser or the differ ends the process.
Write(file, order) ==
    /\ pc = "watching"
    /\ steps < MaxSteps
    /\ steps' = steps + 1
    /\ \E before \in {[NoIteration EXCEPT !.event = "write", !.file = file,
                                          !.order = order,
                                          !.maintained = prev_ast,
                                          !.store_before = store,
                                          !.result_before = prev_result]} :
       \E parsed \in {parse_file_into_ast(file)} :
          IF parsed.panic
          THEN /\ pc' = "aborted"
               /\ last' = [before EXCEPT !.event = "parse_error", !.panic = TRUE]
               /\ UNCHANGED <<prev_ast, prev_result, store>>
          ELSE \E diff \in {get_diff_relation_set(prev_ast, parsed.tree, order)} :
               IF diff.panic
               THEN /\ pc' = "aborted"
                    /\ last' = [before EXCEPT !.panic = TRUE, !.parsed = parsed.tree,
                                              !.diff_prev = prev_ast,
                                              !.diff_new = parsed.tree]
                    /\ UNCHANGED <<prev_ast, prev_result, store>>
               ELSE \E engine_store \in {run_ddlog_type_checker(store, diff.ins, diff.del)} :
                       /\ pc' = "watching"
                       /\ prev_ast' = diff.tree
                       /\ store' = engine_store
                       /\ prev_result' = Bool(OkProgram(engine_store))
                       /\ last' = [before EXCEPT !.parsed = parsed.tree,
                                                 !.diff_prev = prev_ast,
                                                 !.diff_new = parsed.tree,
                                                 !.ins = diff.ins, !.del = diff.del,
                                                 !.upd = diff.tree]

Next ==
    \/ \E file \in Files : Start(file)
    \/ \E file \in Files : \E order \in Orders(FunKeys(prev_ast)) : Write(file, order)

Spec == Init /\ [][Next]_vars

(***************************************************************************)
(* main.rs: the binary's own driver.  Its parser call returns a Result,    *)
(* and its engine call returns no verdict.                                 *)
(***************************************************************************)
\* main (main.rs:19-48): an initial file that does not parse leaves prev_ast
\* None, and prev_ast.unwrap() panics.
MainStart(file) ==
    /\ pc = "start"
    /\ IF ~file.ok
       THEN /\ pc' = "aborted"
            /\ last' = [NoIteration EXCEPT !.event = "start", !.panic = TRUE,
                                           !.file = file]
            /\ UNCHANGED <<prev_ast, prev_result, store, steps>>
       ELSE \E ast \in {build_tree(file.unit)} :
            \E insert_set \in {get_initial_relation_set(ast)} :
               /\ pc' = "watching"
               /\ prev_ast' = ast
               /\ store' = run_ddlog_type_checker({}, insert_set, {})
               /\ last' = [NoIteration EXCEPT !.event = "start", !.file = file,
                                              !.parsed = ast, !.ins = insert_set,
                                              !.upd = ast]
               /\ UNCHANGED <<prev_result, steps>>

\* One DebouncedEvent::Write in watch_for_write (main.rs:69-82): the diff is
\* taken from the fresh tree to prev_ast, and prev_ast is not assigned.
WatchForWrite(file, order) ==
    /\ pc = "watching"
    /\ steps < MaxSteps
    /\ steps' = steps + 1
    /\ \E before \in {[NoIteration EXCEPT !.event = "write", !.file = file,
                                          !.order = order,
                                          !.maintained = prev_ast,
                                          !.store_before = store,
                                          !.result_before = prev_result]} :
          IF ~file.ok
          THEN /\ order = <<>>
               /\ last' = [before EXCEPT !.event = "parse_error"]
               /\ UNCHANGED <<pc, prev_ast, prev_result, store>>
          ELSE \E ast \in {build_tree(file.unit)} :
               /\ order \in Orders(FunKeys(ast))
               /\ \E diff \in {get_diff_relation_set(ast, prev_ast, order)} :
                     IF diff.panic
                     THEN /\ pc' = "aborted"
                          /\ last' = [before EXCEPT !.panic = TRUE, !.parsed = ast,
                                                    !.diff_prev = ast,
                                                    !.diff_new = prev_ast]
                          /\ UNCHANGED <<prev_ast, prev_result, store>>
                     ELSE /\ store' = run_ddlog_type_checker(store, diff.ins, diff.del)
                          /\ last' = [before EXCEPT !.parsed = ast,
                                                    !.diff_prev = ast,
                                                    !.diff_new = prev_ast,
                                                    !.ins = diff.ins, !.del = diff.del,
                                                    !.upd = diff.tree]
                          /\ UNCHANGED <<pc, prev_ast, prev_result>>

\* The iteration orders a write may meet: those of the keys of any file's tree.
FileOrders ==
    {<<>>} \cup UNION {Orders(FunKeys(build_tree(file.unit))) : file \in Programs}

NextMain ==
    \/ \E file \in Files : MainStart(file)
    \/ \E file \in Files : \E order \in FileOrders : WatchForWrite(file, order)

SpecMain == Init /\ [][NextMain]_vars

(***************************************************************************)
(* The tree store on its own: a client that calls the public operations   *)
(* of Tree (ast.rs:25-113) in any order on a Tree::new().                 *)
(***************************************************************************)
MaxNodeId == 2

MaxOps == 4

NodeIds == 0..MaxNodeId

\* The relations a client stores under node_id.
NodeRelations(node_id) == {Leaf("Int", node_id), Var(node_id, "a")}

\* What the last call on the tree was, and the tree it was made on.
TreeCall(event, node_id, relation, child_id) ==
    [event |-> event, panic |-> FALSE, node_id |-> node_id, relation |-> relation,
     child_id |-> child_id, before |-> prev_ast]

InitTree ==
    /\ pc = "tree"
    /\ prev_ast = TreeNew
    /\ prev_result = "none"
    /\ store = {}
    /\ last = [event |-> "new", panic |-> FALSE, node_id |-> 0,
               relation |-> Leaf("Int", 0), child_id |-> 0, before |-> TreeNew]
    /\ steps = 0

AddNode(node_id, relation) ==
    /\ pc = "tree"
    /\ steps < MaxOps
    /\ steps' = steps + 1
    /\ prev_ast' = add_node(prev_ast, node_id, relation)
    /\ last' = TreeCall("add_node", node_id, relation, 0)
    /\ UNCHANGED <<pc, prev_result, store>>

AddRootNode(node_id, relation) ==
    /\ pc = "tree"
    /\ steps < MaxOps
    /\ steps' = steps + 1
    /\ prev_ast' = add_root_node(prev_ast, node_id, relation)
    /\ last' = TreeCall("add_root_node", node_id, relation, 0)
    /\ UNCHANGED <<pc, prev_result, store>>

LinkChild(node_id, child_id) ==
    /\ pc = "tree"
    /\ steps < MaxOps
    /\ steps' = steps + 1
    /\ prev_ast' = link_child(prev_ast, node_id, child_id)
    /\ last' = TreeCall("link_child", node_id, Leaf("Int", 0), child_id)
    /\ UNCHANGED <<pc, prev_result, store>>

\* delete_node panics when no key is left to take the maximum of.
DeleteNode(node_id) ==
    /\ pc = "tree"
    /\ steps < MaxOps
    /\ steps' = steps + 1
    /\ IF delete_node_panics(prev_ast, node_id)
       THEN /\ pc' = "aborted"
            /\ last' = [TreeCall("delete_node", node_id, Leaf("Int", 0), 0)
                            EXCEPT !.panic = TRUE]
            /\ UNCHANGED prev_ast
       ELSE /\ prev_ast' = delete_node(prev_ast, node_id)
            /\ last' = TreeCall("delete_node", node_id, Leaf("Int", 0), 0)
            /\ UNCHANGED pc
    /\ UNCHANGED <<prev_result, store>>

NextTree ==
    \/ \E node_id \in NodeIds : \E relation \in NodeRelations(node_id) :
          AddNode(node_id, relation)
    \/ \E node_id \in NodeIds : \E relation \in NodeRelations(node_id) :
          AddRootNode(node_id, relation)
    \/ \E node_id \in NodeIds : \E child_id \in NodeIds : LinkChild(node_id, child_id)
    \/ \E node_id \in NodeIds : DeleteNode(node_id)

SpecTree == InitTree /\ [][NextTree]_vars

(***************************************************************************)
(* lib.rs: repeated_standard_type_check, the watcher loop of the baseline  *)
(* checker, and the files it is given.                                     *)
(***************************************************************************)
\* int g(int a) { return a; }
IntGOfInt ==
    FunctionDefinition("Int", "g", <<ParameterDeclaration("Int", "a")>>,
                       <<ReturnStmt(Identifier("a"))>>)

BaselineExpressions ==
    { Constant("Integer"), Constant("Float"),
      Identifier("a"),
      BinaryOperator(Constant("Integer"), Constant("Integer")),
      Call("f", <<>>),
      Call("g", <<Constant("Integer")>>),
      Call("g", <<Constant("Float")>>),
      Call("g", <<>>),
      Call("g", <<Constant("Integer"), Constant("Integer")>>),
      Call("h", <<>>) }

Conditions == {Constant("Integer"), Constant("Float")}

Branches == {CompoundStmt(<<Return1>>), CompoundStmt(<<ReturnFloat>>)}

BaselineStatements ==
    {ReturnStmt(e) : e \in BaselineExpressions}
    \cup {ExpressionStmt(Constant("Integer")),
          ExpressionStmt(Call("g", <<Constant("Integer")>>)),
          Declaration("Int", "x", Constant("Integer"))}
    \cup {IfStmt(c, b) : c \in Conditions, b \in Branches}
    \cup {WhileStmt(c, b) : c \in Conditions, b \in Branches}
    \cup {IfElseStmt(c, b, CompoundStmt(<<Return1>>)) : c \in Conditions, b \in Branches}

\* int f() { s }  and  int f() { s return 1; }
BaselineFunctions ==
    {FunctionDefinition("Int", "f", <<>>, <<s>>) : s \in BaselineStatements}
    \cup {FunctionDefinition("Int", "f", <<>>, <<s, Return1>>) : s \in BaselineStatements}

\* f alone, f after g, f before g.
BaselineFiles ==
    {Unparsable}
    \cup {SourceFile(<<f>>) : f \in BaselineFunctions}
    \cup {SourceFile(<<IntGOfInt, f>>) : f \in BaselineFunctions}
    \cup {SourceFile(<<f, IntGOfInt>>) : f \in BaselineFunctions}

InitBaseline ==
    /\ pc = "watching"
    /\ prev_ast = TreeNew
    /\ prev_result = "none"
    /\ store = {}
    /\ last = [event |-> "none", panic |-> FALSE, file |-> Unparsable,
               parsed |-> TreeNew, result |-> "none"]
    /\ steps = 0

\* One DebouncedEvent::Write in repeated_standard_type_check (lib.rs:35-43):
\* single_standard_type_check parses the file and runs type_check on the
\* tree; a panic in either ends the process.
StandardWrite(file) ==
    /\ pc = "watching"
    /\ steps < MaxSteps
    /\ steps' = steps + 1
    /\ \E parsed \in {parse_file_into_ast(file)} :
          IF parsed.panic
          THEN /\ pc' = "aborted"
               /\ last' = [event |-> "parse_error", panic |-> TRUE, file |-> file,
                           parsed |-> TreeNew, result |-> "none"]
               /\ UNCHANGED <<prev_ast, prev_result, store>>
          ELSE \E result \in {type_check(parsed.tree)} :
                  /\ pc' = IF result = "panic" THEN "aborted" ELSE "watching"
                  /\ prev_result' = IF result = "panic" THEN prev_result ELSE result
                  /\ last' = [event |-> "write", panic |-> result = "panic",
                              file |-> file, parsed |-> parsed.tree, result |-> result]
                  /\ UNCHANGED <<prev_ast, store>>

NextBaseline == \E file \in BaselineFiles : StandardWrite(file)

SpecBaseline == InitBaseline /\ [][NextBaseline]_vars

(***************************************************************************)
(* ast.rs: relations_match on its own, called as the differ calls it: on   *)
(* the relations of a node of one tree and of a node of another.           *)
(***************************************************************************)
\* int f() { return e; }
ReturnsExpression(e) == SourceFile(<<FunctionDefinition("Int", "f", <<>>, <<ReturnStmt(e)>>)>>)

MatchFiles ==
    { ReturnsExpression(Call("g", <<>>)),
      ReturnsExpression(Call("g", <<Constant("Integer")>>)),
      ReturnsExpression(Call("g", <<Constant("Integer"), Constant("Float")>>)),
      ReturnsExpression(Call("h", <<Constant("Integer")>>)),
      ReturnsExpression(Constant("Integer")),
      \* int f(int a) { int x = a + 1; if (x) { return x; } return 1.0; }
      SourceFile(<<FunctionDefinition("Int", "f", <<ParameterDeclaration("Int", "a")>>,
                      <<Declaration("Int", "x",
                                    BinaryOperator(Identifier("a"), Constant("Integer"))),
                        IfStmt(Identifier("x"),
                               CompoundStmt(<<ReturnStmt(Identifier("x"))>>)),
                        ReturnFloat>>)>>) }

MatchTrees == {build_tree(file.unit) : file \in MatchFiles}

InitMatch ==
    /\ pc = "matching"
    /\ prev_ast = TreeNew
    /\ prev_result = "none"
    /\ store = {}
    /\ last = [event |-> "none", panic |-> FALSE, t1 |-> TreeNew, t2 |-> TreeNew,
               id1 |-> 0, id2 |-> 0, result |-> "none", reverse |-> "none"]
    /\ steps = 0

\* relations_match(&t1.get_relation(id1), &t2.get_relation(id2), &t1, &t2), and
\* the same call with the two sides exchanged.  A panic ends the process;
\* the function keeps no state, so one pair of calls is a whole behaviour.
Match(t1, id1, t2, id2) ==
    /\ pc = "matching"
    /\ \E result \in {match_ids(id1, id2, t1, t2)} :
       \E reverse \in {match_ids(id2, id1, t2, t1)} :
          /\ pc' = IF result = "panic" \/ reverse = "panic" THEN "aborted" ELSE "matched"
          /\ last' = [event |-> "match", panic |-> result = "panic" \/ reverse = "panic",
                      t1 |-> t1, t2 |-> t2, id1 |-> id1, id2 |-> id2,
                      result |-> result, reverse |-> reverse]
    /\ UNCHANGED <<prev_ast, prev_result, store, steps>>

NextMatch ==
    \E t1 \in MatchTrees : \E t2 \in MatchTrees :
        \E id1 \in Keys(t1) : \E id2 \in Keys(t2) : Match(t1, id1, t2, id2)

SpecMatch == InitMatch /\ [][NextMatch]_vars

(***************************************************************************)
(* ast.rs: delete_onwards and insert_onwards on their own, called on a     *)
(* node of a parser-built tree.                                            *)
(***************************************************************************)
SubtreeTrees == {build_tree(file.unit) : file \in Programs \cup MatchFiles}

\* The trees insert_onwards inserts into: an empty one and a parsed one.
TargetTrees == {TreeNew, build_tree(<<IntF>>)}

InitOnwards ==
    /\ pc = "start"
    /\ prev_ast = TreeNew
    /\ prev_result = "none"
    /\ store = {}
    /\ last = [event |-> "none", panic |-> FALSE, ast |-> TreeNew, new_ast |-> TreeNew,
               node_id |-> 0, set |-> {}, tree |-> TreeNew, id |-> 0]
    /\ steps = 0

\* delete_onwards(node_id, ast) (ast.rs:668-961).
DeleteOnwards(node_id, ast) ==
    /\ pc = "start"
    /\ \E deleted \in {delete_onwards(node_id, ast)} :
          IF deleted.panic
          THEN /\ pc' = "aborted"
               /\ last' = [event |-> "delete_onwards", panic |-> TRUE, ast |-> ast,
                           new_ast |-> TreeNew, node_id |-> node_id, set |-> {},
                           tree |-> TreeNew, id |-> 0]
          ELSE /\ pc' = "done"
               /\ last' = [event |-> "delete_onwards", panic |-> FALSE, ast |-> ast,
                           new_ast |-> TreeNew, node_id |-> node_id,
                           set |-> deleted.set, tree |-> deleted.tree, id |-> 0]
    /\ UNCHANGED <<prev_ast, prev_result, store, steps>>

\* insert_onwards(node_id, ast, new_ast) (ast.rs:967-1344).
InsertOnwards(node_id, ast, new_ast) ==
    /\ pc = "start"
    /\ \E inserted \in {insert_onwards(node_id, ast, new_ast)} :
          IF inserted.panic
          THEN /\ pc' = "aborted"
               /\ last' = [event |-> "insert_onwards", panic |-> TRUE, ast |-> ast,
                           new_ast |-> new_ast, node_id |-> node_id, set |-> {},
                           tree |-> TreeNew, id |-> 0]
          ELSE /\ pc' = "done"
               /\ last' = [event |-> "insert_onwards", panic |-> FALSE, ast |-> ast,
                           new_ast |-> new_ast, node_id |-> node_id,
                           set |-> inserted.set, tree |-> inserted.tree,
                           id |-> inserted.id]
    /\ UNCHANGED <<prev_ast, prev_result, store, steps>>

NextOnwards ==
    \/ \E ast \in SubtreeTrees : \E node_id \in Keys(ast) : DeleteOnwards(node_id, ast)
    \/ \E ast \in TargetTrees : \E new_ast \in SubtreeTrees :
          \E node_id \in Keys(new_ast) : InsertOnwards(node_id, ast, new_ast)

SpecOnwards == InitOnwards /\ [][NextOnwards]_vars

(***************************************************************************)
(* Properties.                                                             *)
(***************************************************************************)
\* The latest iteration was a write event whose diff ran to completion.
DiffCompleted == last.event = "write" /\ ~last.panic

\* What the engine's store holds for a relation.
StoreRecord(r) == [relid |-> get_equiv_relid(r), v |-> get_equiv_ddvalue(r)]

\* C1: Incremental equivalence.  After the engine has consumed the initial
\* relation set of T0 and then the insert and delete sets of each diff of the
\* maintained tree against Ti, its verdict equals the verdict of the baseline
\* checker type_check on Ti, at every step.
C1_IncrementalEquivalence ==
    (last.event \in {"start", "write"} /\ ~last.panic)
        => prev_result = type_check(last.parsed)

\* C2: Delta application.  Removing the delete set from the relations of prev
\* and then adding the insert set yields exactly the relations of the updated
\* tree: (flat(prev) \ del) \cup ins = flat(upd).
C2_DeltaApplication ==
    DiffCompleted =>
        (get_initial_relation_set(last.diff_prev) \ last.del) \cup last.ins
            = get_initial_relation_set(last.upd)

\* C3: Disjoint deltas.  For every diff in a sequence of diffs in which each
\* diff's prev tree is the updated tree of the previous one, the insert set
\* and the delete set have no relation in common.
C3_DisjointDeltas ==
    DiffCompleted => last.ins \cap last.del = {}

\* C7: Ids are never reused.  Over any sequence of diffs applied to the
\* maintained tree, an Id that belonged to a deleted node is never assigned
\* to a node inserted by that diff or a later one.
C7_IdsNeverReused == prev_ast.reused = {}

\* C8: The engine applies both halves of a delta.  After
\* run_ddlog_type_checker the store equals (store before \cup insert_set)
\* \ delete_set, so every relation of delete_set is absent from it.
C8_BothHalvesApplied ==
    DiffCompleted =>
        /\ store = (last.store_before \cup {StoreRecord(r) : r \in last.ins})
                       \ {StoreRecord(r) : r \in last.del}
        /\ \A r \in last.del : StoreRecord(r) \notin store

\* C9: Maintained-tree hand-over.  For every write event the diff is computed
\* with prev = the maintained tree (the updated tree of the previous event, or
\* the initially parsed tree) and new = the freshly parsed tree, in that
\* order, and afterwards the maintained tree is the updated tree of this diff.
C9_HandOver ==
    DiffCompleted =>
        /\ last.diff_prev = last.maintained
        /\ last.diff_new = last.parsed
        /\ prev_ast = last.upd

\* C10: Parse-error recovery.  When the parser fails on a write event the
\* iteration is aborted with the maintained tree and the previous verdict
\* unchanged, and the watcher loop goes on to the next write event.
C10_ParseErrorRecovery ==
    last.event = "parse_error" =>
        /\ pc = "watching"
        /\ prev_ast = last.maintained
        /\ prev_result = last.result_before

\* The name a relation carries, if any.
NameOf(r) ==
    CASE r.tag \in {"FunDef", "FunCall"} -> r.fun_name
      [] r.tag \in {"Assign", "Var", "Arg"} -> r.var_name
      [] OTHER -> ""

Mismatch == <<-1, -1>>

RECURSIVE PairWalk(_, _, _, _, _)
\* The pairs <<Id of t1, Id of t2>> a walk of both trees in step visits, with
\* Mismatch among them where the two relations differ in more than Ids.
PairWalk(id1, id2, t1, t2, depth) ==
    IF depth = 0 \/ ~HasNode(t1, id1) \/ ~HasNode(t2, id2) THEN {Mismatch}
    ELSE LET r1 == get_relation(t1, id1)
             r2 == get_relation(t2, id2)
         IN IF \/ r1.tag # r2.tag
               \/ NameOf(r1) # NameOf(r2)
               \/ r1.id # id1
               \/ r2.id # id2
               \/ Len(FieldIds(r1)) # Len(FieldIds(r2))
            THEN {Mismatch}
            ELSE {<<id1, id2>>}
                 \cup UNION {PairWalk(FieldIds(r1)[i], FieldIds(r2)[i], t1, t2, depth - 1) :
                                i \in 1..Len(FieldIds(r1))}

\* There is a bijection between the Ids of t1 and of t2 that maps root to
\* root and the relations of t1 onto the relations of t2.
Isomorphic(t1, t2) ==
    LET pairs == PairWalk(get_root(t1), get_root(t2), t1, t2, MaxDepth)
    IN /\ Mismatch \notin pairs
       /\ {p[1] : p \in pairs} = Keys(t1)
       /\ {p[2] : p \in pairs} = Keys(t2)
       /\ Cardinality(pairs) = Cardinality(Keys(t1))
       /\ Cardinality(pairs) = Cardinality(Keys(t2))

RECURSIVE Subtree(_, _, _)
\* The Ids reachable from id through the Id fields of relations.
Subtree(t, id, depth) ==
    IF depth = 0 \/ ~HasNode(t, id) THEN {}
    ELSE {id} \cup UNION {Subtree(t, c, depth - 1) :
                             c \in Range(FieldIds(get_relation(t, id)))}

\* The invariants of the data model: fields refer to nodes of the arena,
\* child lists agree with the fields, max_id bounds the Ids, the root is a
\* TransUnit, and the nodes form a tree rooted there.
DataModelInvariants(t) ==
    /\ \A k \in Keys(t) :
          /\ get_relation(t, k).id = k
          /\ Range(FieldIds(get_relation(t, k))) \subseteq Keys(t)
          /\ Range(get_node(t, k).children) = Range(FieldIds(get_relation(t, k)))
          /\ k <= t.max_id
          /\ Cardinality({j \in Keys(t) : k \in Range(FieldIds(get_relation(t, j)))})
                 = IF k = get_root(t) THEN 0 ELSE 1
          /\ \A i, j \in DOMAIN FieldIds(get_relation(t, k)) :
                 FieldIds(get_relation(t, k))[i] = FieldIds(get_relation(t, k))[j] => i = j
    /\ HasNode(t, get_root(t))
    /\ get_relation(t, get_root(t)).tag = "TransUnit"
    /\ Subtree(t, get_root(t), MaxDepth) = Keys(t)

\* The functions a TransUnit lists have pairwise distinct names.
DistinctFunctionNames(t) ==
    LET funs == get_relation(t, get_root(t)).body_ids
    IN \A i, j \in DOMAIN funs :
           get_relation(t, funs[i]).fun_name = get_relation(t, funs[j]).fun_name => i = j

\* The diff left everything as it was.
NothingChanged ==
    /\ last.ins = {}
    /\ last.del = {}
    /\ Core(last.upd) = Core(last.diff_prev)

\* A completed diff of a tree that keeps the data-model invariants against
\* itself or a tree isomorphic to it.
DiffOfSame ==
    /\ DiffCompleted
    /\ DataModelInvariants(last.diff_prev)
    /\ Isomorphic(last.diff_prev, last.diff_new)

\* C4 as stated: Idempotence of diffing.  For every tree T that satisfies the
\* data-model invariants, the diff of T against T or a tree isomorphic to T
\* returns empty insert and delete sets and an updated tree whose arena,
\* root_id and max_id are those of T.
C4_Idempotence == DiffOfSame => NothingChanged

\* C4, amended: the same, for every such T whose top-level functions have
\* pairwise distinct names.
C4_IdempotenceDistinctNames ==
    (DiffOfSame /\ DistinctFunctionNames(last.diff_prev)) => NothingChanged

\* C4 witness: a tree that went through an insertion is diffed against a
\* freshly parsed tree with other Ids, and nothing changes.
C4_Witness ==
    /\ DiffOfSame
    /\ DistinctFunctionNames(last.diff_prev)
    /\ Core(last.diff_prev) # Core(last.diff_new)
    /\ NothingChanged

\* C5: Structural isomorphism.  The updated tree of every diff is isomorphic
\* to new: a bijection between their Ids maps root to root and the relations
\* of the updated tree onto the relations of new.
C5_StructuralIsomorphism ==
    DiffCompleted => Isomorphic(last.upd, last.diff_new)

RECURSIVE MatchedStmts(_, _, _, _, _)
\* The pairs <<cell Id, statement Id>> of prev whose statement compare_items
\* finds to shape-match the statement of the new cell it is compared with.
MatchedStmts(item_id1, item_id2, t1, t2, depth) ==
    IF depth = 0 \/ ~HasNode(t1, item_id1) \/ ~HasNode(t2, item_id2) THEN {}
    ELSE LET item1 == get_relation(t1, item_id1)
             item2 == get_relation(t2, item_id2)
         IN IF item1.tag \notin CellTags \/ item2.tag \notin CellTags THEN {}
            ELSE LET m == match_ids(item1.stmt_id, item2.stmt_id, t1, t2)
                 IN CASE m = "true" ->
                            {<<item_id1, item1.stmt_id>>}
                            \cup IF item1.tag = "Item" /\ item2.tag = "Item"
                                 THEN MatchedStmts(item1.next_stmt_id, item2.next_stmt_id,
                                                   t1, t2, depth - 1)
                                 ELSE {}
                      [] m = "false" /\ item2.tag = "Item" ->
                            MatchedStmts(item_id1, item2.next_stmt_id, t1, t2, depth - 1)
                      [] OTHER -> {}

\* The pairs <<prev FunDef, new FunDef>> the differ matches by name: each
\* function of prev with the first function of new that has its name.
MatchedFuns(t1, t2) ==
    LET funs1 == get_relation(t1, get_root(t1)).body_ids
        funs2 == get_relation(t2, get_root(t2)).body_ids
    IN {<<get_relation(t1, funs1[i]), get_relation(t2, funs2[j])>> :
           <<i, j>> \in {p \in (DOMAIN funs1) \X (DOMAIN funs2) :
               /\ get_relation(t1, funs1[p[1]]).fun_name
                      = get_relation(t2, funs2[p[2]]).fun_name
               /\ \A k \in 1..(p[2] - 1) :
                      get_relation(t1, funs1[p[1]]).fun_name
                          # get_relation(t2, funs2[k]).fun_name}}

\* The statements of prev that shape-match, as <<cell Id, statement Id>>.
ShapeMatched(t1, t2) ==
    UNION {MatchedStmts(get_relation(t1, p[1].body_id).start_id,
                        get_relation(t2, p[2].body_id).start_id, t1, t2, MaxDepth) :
              p \in MatchedFuns(t1, t2)}

\* The Ids of the nodes in shape-matched statement subtrees of prev.
ShapeMatchedNodes(t1, t2) ==
    UNION {Subtree(t1, p[2], MaxDepth) : p \in ShapeMatched(t1, t2)}

\* The Ids of all nodes of prev the differ matches.
MatchedNodes(t1, t2) ==
    UNION {{p[1].id, p[1].return_type_id, p[1].body_id}
           \cup UNION {{p[1].arg_ids[i], get_relation(t1, p[1].arg_ids[i]).type_id} :
                          i \in (DOMAIN p[1].arg_ids) \cap (DOMAIN p[2].arg_ids)} :
              p \in MatchedFuns(t1, t2)}
    \cup {p[1] : p \in ShapeMatched(t1, t2)}
    \cup ShapeMatchedNodes(t1, t2)

\* C6: Identity preservation.  Every prev node the differ matches (the FunDef
\* of a name-matched function, its return-type node, its positionally matched
\* Arg nodes and their type nodes, its Compound, every chain cell whose
\* statement shape-matches, every node of a shape-matched statement subtree)
\* is in the updated tree under the same Id, and no relation of a
\* shape-matched statement subtree is in the insert or the delete set.
C6_IdentityPreservation ==
    DiffCompleted =>
        /\ \A id \in MatchedNodes(last.diff_prev, last.diff_new) : HasNode(last.upd, id)
        /\ \A id \in ShapeMatchedNodes(last.diff_prev, last.diff_new) :
              /\ get_relation(last.upd, id) = get_relation(last.diff_prev, id)
              /\ get_relation(last.diff_prev, id) \notin last.ins \cup last.del

\* C6 witness: a diff that changes the tree around a statement that
\* shape-matches.
C6_Witness ==
    /\ DiffCompleted
    /\ ShapeMatchedNodes(last.diff_prev, last.diff_new) # {}
    /\ last.ins # {}
    /\ last.del # {}

\* The Arg relations of a tree.
ArgsOf(t) == {r \in get_initial_relation_set(t) : r.tag = "Arg"}

\* The pairs <<Arg relation of t1, name>> such that t1 with that Arg renamed
\* to name is t2 up to Ids: t2 differs from t1 only in that var_name.
ArgRenames(t1, t2) ==
    {p \in ArgsOf(t1) \X {a.var_name : a \in ArgsOf(t2)} :
        /\ p[1].var_name # p[2]
        /\ Isomorphic(update_relation(t1, p[1].id,
                                      Arg(p[1].id, p[2], p[1].type_id)), t2)}

\* C11: Formal-parameter rename.  When new differs from prev only in the
\* var_name of one Arg of a name-matched function, the delete set is exactly
\* {the old Arg relation} and the insert set is exactly {the Arg relation with
\* the same Id and type_id and the new name}.
C11_ParameterRename ==
    DiffCompleted =>
        \A p \in ArgRenames(last.diff_prev, last.diff_new) :
            /\ last.del = {p[1]}
            /\ last.ins = {Arg(p[1].id, p[2], p[1].type_id)}

\* The body_ids of the root TransUnit of a tree.
BodyIds(t) == get_relation(t, get_root(t)).body_ids

\* t2 is t1 with one extra top-level function, of a name t1 does not have,
\* appended: the functions of t1 are those of t2 before the last, up to Ids.
AppendedFunction(t1, t2) ==
    /\ DataModelInvariants(t1)
    /\ DataModelInvariants(t2)
    /\ Len(BodyIds(t2)) = Len(BodyIds(t1)) + 1
    /\ \A i \in 1..Len(BodyIds(t1)) :
           Mismatch \notin PairWalk(BodyIds(t1)[i], BodyIds(t2)[i], t1, t2, MaxDepth)
    /\ \A i \in 1..Len(BodyIds(t1)) :
           get_relation(t1, BodyIds(t1)[i]).fun_name
               # get_relation(t2, BodyIds(t2)[Len(BodyIds(t2))]).fun_name

\* The insert set is the TransUnit under root_id with body_ids extended by
\* fun_id, and one relation per node of the subtree of new_fun_id in new_ast,
\* copied under fresh Ids with consistent child Ids below fun_id in upd.
InsertsAppended(ins, prev, upd, new_ast, fun_id, new_fun_id) ==
    /\ ins = {TransUnit(get_root(prev), BodyIds(prev) \o <<fun_id>>)}
                \cup {get_relation(upd, k) : k \in Subtree(upd, fun_id, MaxDepth)}
    /\ Mismatch \notin PairWalk(fun_id, new_fun_id, upd, new_ast, MaxDepth)
    /\ Cardinality(ins) = 1 + Cardinality(Subtree(new_ast, new_fun_id, MaxDepth))
    /\ Subtree(upd, fun_id, MaxDepth) \cap Keys(prev) = {}

\* C12: Appended function.  When new is prev plus one extra top-level
\* function of a fresh name, the delete set is exactly {the prev TransUnit
\* relation} and the insert set is the TransUnit with the same Id and body_ids
\* extended by the new FunDef Id, plus exactly one relation per node of the new
\* function's subtree, with child Ids consistent.
C12_AppendedFunction ==
    (DiffCompleted /\ AppendedFunction(last.diff_prev, last.diff_new)) =>
        /\ last.del = {get_relation(last.diff_prev, get_root(last.diff_prev))}
        /\ \E r \in {x \in last.ins : x.tag = "FunDef"} :
               InsertsAppended(last.ins, last.diff_prev, last.upd, last.diff_new, r.id,
                               BodyIds(last.diff_new)[Len(BodyIds(last.diff_new))])

\* A diff that appended a function and reported it as C12 says (reached when
\* the body of the appended function holds no call with arguments).
AppendedAsSpecified ==
    /\ DiffCompleted
    /\ AppendedFunction(last.diff_prev, last.diff_new)
    /\ last.del = {get_relation(last.diff_prev, get_root(last.diff_prev))}
    /\ \E r \in {x \in last.ins : x.tag = "FunDef"} :
           InsertsAppended(last.ins, last.diff_prev, last.upd, last.diff_new, r.id,
                           BodyIds(last.diff_new)[Len(BodyIds(last.diff_new))])

\* The last call was delete_node, returned, and removed the largest key.
DeletedLargestKey ==
    /\ last.event = "delete_node"
    /\ ~last.panic
    /\ HasNode(last.before, last.node_id)
    /\ last.node_id = SetMax(Keys(last.before))

\* C13: max_id invariant.  After any sequence of add_node, add_root_node and
\* delete_node calls on a Tree, max_id is greater than or equal to every key
\* of the arena, and immediately after a delete_node that removed the largest
\* key, max_id equals the largest remaining key.
C13_MaxIdInvariant ==
    /\ \A k \in Keys(prev_ast) : prev_ast.max_id >= k
    /\ DeletedLargestKey => prev_ast.max_id = SetMax(Keys(prev_ast))

\* A delete_node removed the largest key and lowered max_id to a smaller one.
C13_Witness ==
    /\ DeletedLargestKey
    /\ prev_ast.max_id < last.before.max_id
    /\ prev_ast.max_id = SetMax(Keys(prev_ast))

\* The last call was add_node or add_root_node with an Id that was a key.
AddedExistingId ==
    /\ last.event \in {"add_node", "add_root_node"}
    /\ HasNode(last.before, last.node_id)

\* C14: add_node(id, relation) and add_root_node(id, relation) fail when id is
\* already a key of the arena, leaving the existing node (its relation and
\* child list) unchanged.
C14_AddExistingFails ==
    AddedExistingId =>
        get_node(prev_ast, last.node_id) = get_node(last.before, last.node_id)

\* The node of t under id exists and its relation has one of the tags.
KindAt(t, id, tags) == HasNode(t, id) /\ get_relation(t, id).tag \in tags

\* Every Id in a field of relation r is a key of t, and the typed fields
\* refer to nodes of an admissible kind.
FieldsAdmissible(t, r) ==
    /\ Range(FieldIds(r)) \subseteq Keys(t)
    /\ r.tag \in {"Assign", "Arg"} => KindAt(t, r.type_id, LeafTags)
    /\ r.tag = "Item" => KindAt(t, r.next_stmt_id, {"Item", "EndItem"})
    /\ r.tag = "Compound" => KindAt(t, r.start_id, {"Item", "EndItem"})
    /\ r.tag = "TransUnit" => \A i \in DOMAIN r.body_ids : KindAt(t, r.body_ids[i], {"FunDef"})
    /\ r.tag = "FunDef" => \A i \in DOMAIN r.arg_ids : KindAt(t, r.arg_ids[i], {"Arg"})

ReferentialIntegrity(t) == \A k \in Keys(t) : FieldsAdmissible(t, get_relation(t, k))

\* C15: Referential integrity of the maintained tree.  After any sequence of
\* diffs starting from a parser-built tree, every Id that appears in a field
\* of a relation in the updated tree's arena is a key of that arena, and the
\* node stored under it has a kind admissible for that field (type_id ->
\* Void/Int/Float/Char, next_stmt_id and start_id -> Item/EndItem, body_ids ->
\* FunDef, arg_ids of FunDef -> Arg).
C15_ReferentialIntegrity == DiffCompleted => ReferentialIntegrity(last.upd)

RECURSIVE ChildReach(_, _, _)
\* The Ids reachable from id through the child lists of the nodes.
ChildReach(t, id, depth) ==
    IF depth = 0 \/ ~HasNode(t, id) THEN {}
    ELSE {id} \cup UNION {ChildReach(t, c, depth - 1) :
                             c \in Range(get_node(t, id).children)}

\* The places <<parent, position>> at which k is listed as a child.
ChildPlaces(t, k) ==
    {pl \in Keys(t) \X (1..MaxDepth) :
        /\ pl[2] \in DOMAIN get_node(t, pl[1]).children
        /\ get_node(t, pl[1]).children[pl[2]] = k}

\* The child links form a tree rooted at root_id that holds every node of
\* the arena exactly once.
RootedTree(t) ==
    /\ HasNode(t, get_root(t))
    /\ \A k \in Keys(t) : Len(get_node(t, k).children) <= MaxDepth
    /\ \A k \in Keys(t) : Range(get_node(t, k).children) \subseteq Keys(t)
    /\ ChildReach(t, get_root(t), MaxDepth) = Keys(t)
    /\ \A k \in Keys(t) :
           Cardinality(ChildPlaces(t, k)) = IF k = get_root(t) THEN 0 ELSE 1

\* C16: Rooted-tree invariant with no orphans.  After any diff, the child
\* links of the updated tree form a tree rooted at root_id in which every node
\* of the arena is reachable from the root exactly once, so that no node of a
\* statement or subtree the new program no longer contains remains.
C16_RootedTreeNoOrphans == DiffCompleted => RootedTree(last.upd)

\* The baseline checker was run on the tree of the last written file.
BaselineRan == last.event = "write"

\* The relations of t with one of the tags.
RelationsOf(t, tags) == {r \in get_initial_relation_set(t) : r.tag \in tags}

\* The baseline type of a literal relation.
LiteralType(r) ==
    CASE r.tag = "Void" -> "VoidType" [] r.tag = "Int" -> "IntType"
      [] r.tag = "Float" -> "FloatType" [] r.tag = "Char" -> "CharType"
      [] OTHER -> "ErrorType"

\* The FunCall rule as C17 states it: the type of call in the unit t, for a
\* call whose arguments are literals.
CallType(t, call) ==
    LET callees == {d \in RelationsOf(t, {"FunDef"}) :
                       /\ d.fun_name = call.fun_name
                       /\ Len(d.arg_ids) = Len(call.arg_ids)
                       /\ \A i \in DOMAIN call.arg_ids :
                              LiteralType(get_relation(t, get_relation(t, d.arg_ids[i]).type_id))
                                  = LiteralType(get_relation(t, call.arg_ids[i]))}
    IN IF callees = {} THEN "ErrorType"
       ELSE LiteralType(get_relation(t, (CHOOSE d \in callees : TRUE).return_type_id))

\* The statement a function body consists of, when it is a single statement.
OnlyStatement(t, d) == get_relation(t, get_relation(t, get_relation(t, d.body_id).start_id).stmt_id)

\* Function d of t is { return e; } with e a literal, a bound Var or a call
\* with literal arguments.
ReturnsCallOrLiteral(t, d) ==
    /\ get_relation(t, get_relation(t, d.body_id).start_id).tag = "EndItem"
    /\ OnlyStatement(t, d).tag = "Return"
    /\ LET e == get_relation(t, OnlyStatement(t, d).expr_id)
       IN \/ e.tag \in LeafTags
          \/ e.tag = "Var" /\ \E i \in DOMAIN d.arg_ids :
                                  get_relation(t, d.arg_ids[i]).var_name = e.var_name
          \/ e.tag = "FunCall" /\ \A i \in DOMAIN e.arg_ids :
                                      get_relation(t, e.arg_ids[i]).tag \in LeafTags

\* The type of the returned expression of such a function.
ReturnedType(t, d) ==
    LET e == get_relation(t, OnlyStatement(t, d).expr_id)
    IN CASE e.tag \in LeafTags -> LiteralType(e)
         [] e.tag = "Var" ->
               LiteralType(get_relation(t,
                   get_relation(t, d.arg_ids[CHOOSE i \in DOMAIN d.arg_ids :
                       get_relation(t, d.arg_ids[i]).var_name = e.var_name]).type_id))
         [] e.tag = "FunCall" -> CallType(t, e)

\* Every function of t returns a call or a literal, and some function a call.
CallProgram(t) ==
    /\ DataModelInvariants(t)
    /\ DistinctFunctionNames(t)
    /\ \A d \in RelationsOf(t, {"FunDef"}) : ReturnsCallOrLiteral(t, d)
    /\ RelationsOf(t, {"FunCall"}) # {}

\* C17: Baseline FunCall rule.  type_check treats a FunCall as well-typed iff
\* some FunDef of the translation unit has the same fun_name, the number of
\* call arguments equals that function's number of formals, and each
\* argument's type equals the corresponding formal's type; the call's type is
\* then that function's return type.  This holds for calls to any function of
\* the unit, not only to the function containing the call.
C17_BaselineFunCallRule ==
    (BaselineRan /\ CallProgram(last.parsed)) =>
        last.result = Bool(\A d \in RelationsOf(last.parsed, {"FunDef"}) :
                              ReturnedType(last.parsed, d)
                                  = LiteralType(get_relation(last.parsed, d.return_type_id)))

\* The type of expression e in function d of t when e is a literal or a Var
\* that names a formal of d, and "Unknown" for any other expression.
SimpleType(t, d, e) ==
    CASE e.tag \in LeafTags -> LiteralType(e)
      [] e.tag = "Var" /\ (\E i \in DOMAIN d.arg_ids :
                             get_relation(t, d.arg_ids[i]).var_name = e.var_name) ->
            LiteralType(get_relation(t,
                get_relation(t, d.arg_ids[CHOOSE i \in DOMAIN d.arg_ids :
                    get_relation(t, d.arg_ids[i]).var_name = e.var_name]).type_id))
      [] OTHER -> "Unknown"

RECURSIVE ChainStatements(_, _, _)
\* The Ids of the statements of the Item/EndItem chain that starts at cell_id.
ChainStatements(t, cell_id, depth) ==
    IF depth = 0 \/ ~HasNode(t, cell_id) THEN {}
    ELSE IF get_relation(t, cell_id).tag = "Item"
    THEN {get_relation(t, cell_id).stmt_id}
         \cup ChainStatements(t, get_relation(t, cell_id).next_stmt_id, depth - 1)
    ELSE IF get_relation(t, cell_id).tag = "EndItem"
    THEN {get_relation(t, cell_id).stmt_id}
    ELSE {}

\* The Ids of the statements of Compound compound_id.
CompoundStatements(t, compound_id) ==
    ChainStatements(t, get_relation(t, compound_id).start_id, MaxDepth)

\* Statement s is return e; with e of a simple type.
SimpleReturn(t, d, s) ==
    s.tag = "Return" /\ SimpleType(t, d, get_relation(t, s.expr_id)) # "Unknown"

\* The Compounds an If, IfElse or While statement holds.
BranchIds(s) ==
    CASE s.tag = "If" -> {s.then_id}
      [] s.tag = "IfElse" -> {s.then_id, s.else_id}
      [] s.tag = "While" -> {s.body_id}

\* Statement s is an If, IfElse or While with a literal condition whose
\* branches are Compounds of simple returns.
SimpleControlFlow(t, d, s) ==
    /\ s.tag \in {"If", "IfElse", "While"}
    /\ get_relation(t, s.cond_id).tag \in LeafTags
    /\ \A b \in BranchIds(s) :
           /\ get_relation(t, b).tag = "Compound"
           /\ \A k \in CompoundStatements(t, b) : SimpleReturn(t, d, get_relation(t, k))

\* return e; is well-typed in d iff e has the return type of d.
ReturnOk(t, d, s) ==
    SimpleType(t, d, get_relation(t, s.expr_id))
        = LiteralType(get_relation(t, d.return_type_id))

\* The control-flow rule as C18 states it.
ControlFlowOk(t, d, s) ==
    /\ LiteralType(get_relation(t, s.cond_id)) = "IntType"
    /\ \A b \in BranchIds(s) :
           \A k \in CompoundStatements(t, b) : ReturnOk(t, d, get_relation(t, k))

\* Every statement of every function of t is a simple return or a simple
\* control-flow statement, and there is a control-flow statement.
ControlFlowProgram(t) ==
    /\ DataModelInvariants(t)
    /\ DistinctFunctionNames(t)
    /\ \A d \in RelationsOf(t, {"FunDef"}) :
           \A k \in CompoundStatements(t, d.body_id) :
               \/ SimpleReturn(t, d, get_relation(t, k))
               \/ SimpleControlFlow(t, d, get_relation(t, k))
    /\ RelationsOf(t, {"If", "IfElse", "While"}) # {}

\* C18: Baseline control-flow rule.  type_check treats an If, IfElse or While
\* statement as well-typed iff its condition has type Int and its body or
\* branches are well-typed, and returns a verdict for programs containing
\* them.
C18_BaselineControlFlowRule ==
    (BaselineRan /\ ControlFlowProgram(last.parsed)) =>
        last.result =
            Bool(\A d \in RelationsOf(last.parsed, {"FunDef"}) :
                    \A k \in CompoundStatements(last.parsed, d.body_id) :
                        IF get_relation(last.parsed, k).tag = "Return"
                        THEN ReturnOk(last.parsed, d, get_relation(last.parsed, k))
                        ELSE ControlFlowOk(last.parsed, d, get_relation(last.parsed, k)))

\* A unit that defines no function name twice and satisfies the data-model
\* invariants but has an unbound Var, a call to an undefined function, or a
\* call with more arguments than the function of that name has formals.
IllTyped(t) ==
    \/ \E v \in RelationsOf(t, {"Var"}) :
          \A b \in RelationsOf(t, {"Arg", "Assign"}) : b.var_name # v.var_name
    \/ \E c \in RelationsOf(t, {"FunCall"}) :
          \A d \in RelationsOf(t, {"FunDef"}) : d.fun_name # c.fun_name
    \/ \E c \in RelationsOf(t, {"FunCall"}) :
          \E d \in RelationsOf(t, {"FunDef"}) :
              d.fun_name = c.fun_name /\ Len(c.arg_ids) > Len(d.arg_ids)

\* C19: The baseline checker always produces a boolean.  For every tree that
\* satisfies the data-model invariants, type_check returns true or false and
\* never aborts; an ill-typed program (a Var whose name is not bound, a call
\* to an undefined function, a call with too many arguments) yields false.
C19_BaselineAlwaysBoolean ==
    (BaselineRan /\ DataModelInvariants(last.parsed)) =>
        /\ last.result \in {"true", "false"}
        /\ IllTyped(last.parsed) => last.result = "false"

\* relations_match was called on two relations of kinds it accepts.
MatchedAccepted ==
    /\ last.event = "match"
    /\ get_relation(last.t1, last.id1).tag \notin {"FunDef", "TransUnit"}
    /\ get_relation(last.t2, last.id2).tag \notin {"FunDef", "TransUnit"}

\* C20: relations_match is reflexive and symmetric on every pair of relation
\* kinds it accepts (all kinds other than FunDef and TransUnit):
\* relations_match(r, r, t, t) is true, and relations_match(r1, r2, t1, t2)
\* returns the same boolean as relations_match(r2, r1, t2, t1) without
\* aborting; it is transitive where it holds.
C20_MatchReflexiveSymmetric ==
    MatchedAccepted =>
        /\ (last.t1 = last.t2 /\ last.id1 = last.id2) => last.result = "true"
        /\ last.result \in {"true", "false"}
        /\ last.reverse = last.result
        /\ last.result = "true" =>
               \A t3 \in MatchTrees : \A id3 \in Keys(t3) :
                   match_ids(last.id2, id3, last.t2, t3) = "true"
                       => match_ids(last.id1, id3, last.t1, t3) = "true"

\* relations_match was called on two FunCall relations.
MatchedCalls ==
    /\ last.event = "match"
    /\ get_relation(last.t1, last.id1).tag = "FunCall"
    /\ get_relation(last.t2, last.id2).tag = "FunCall"

\* C21: relations_match on two FunCall relations returns true only if
\* fun_name is equal, the two arg_ids lists have the same length, and the
\* arguments shape-match pointwise; two calls with different numbers of
\* arguments never match.
C21_CallsMatchPointwise ==
    (MatchedCalls /\ last.result = "true") =>
        /\ get_relation(last.t1, last.id1).fun_name = get_relation(last.t2, last.id2).fun_name
        /\ Len(get_relation(last.t1, last.id1).arg_ids)
               = Len(get_relation(last.t2, last.id2).arg_ids)
        /\ \A i \in DOMAIN get_relation(last.t1, last.id1).arg_ids :
               match_ids(get_relation(last.t1, last.id1).arg_ids[i],
                         get_relation(last.t2, last.id2).arg_ids[i],
                         last.t1, last.t2) = "true"

\* The pairs <<FunDef of t1, FunDef of t2>> of equal fun_name.
NameMatched(t1, t2) ==
    {p \in RelationsOf(t1, {"FunDef"}) \X RelationsOf(t2, {"FunDef"}) :
        p[1].fun_name = p[2].fun_name}

\* The first cell of the body of FunDef d of t.
HeadCell(t, d) == get_relation(t, get_relation(t, d.body_id).start_id)

\* The name-matched pairs whose bodies are both a single statement (an
\* EndItem) and whose statements do not shape-match.
EndItemMismatches(t1, t2) ==
    {p \in NameMatched(t1, t2) :
        /\ HeadCell(t1, p[1]).tag = "EndItem"
        /\ HeadCell(t2, p[2]).tag = "EndItem"
        /\ match_ids(HeadCell(t1, p[1]).stmt_id, HeadCell(t2, p[2]).stmt_id, t1, t2)
               = "false"}

\* Both trees of the last diff are well-formed and name their functions once.
DiffOfWellFormed ==
    /\ DiffCompleted
    /\ DataModelInvariants(last.diff_prev) /\ DistinctFunctionNames(last.diff_prev)
    /\ DataModelInvariants(last.diff_new) /\ DistinctFunctionNames(last.diff_new)

\* C22: compare_items, EndItem/EndItem case with statements that do not
\* shape-match: the new statement subtree is inserted, the EndItem is replaced
\* by an EndItem with the same Id pointing at the inserted statement, and
\* every relation of prev's original statement subtree is added to the delete
\* set and its nodes are removed from the updated tree.
C22_EndItemMismatch ==
    DiffOfWellFormed =>
        \A p \in EndItemMismatches(last.diff_prev, last.diff_new) :
            /\ HeadCell(last.diff_prev, p[1]) \in last.del
            /\ \E e \in last.ins :
                   /\ e.tag = "EndItem"
                   /\ e.id = HeadCell(last.diff_prev, p[1]).id
                   /\ e.stmt_id \in {r.id : r \in last.ins}
                   /\ KindAt(last.upd, e.id, {"EndItem"})
                   /\ get_relation(last.upd, e.id) = e
            /\ \A k \in Subtree(last.diff_prev, HeadCell(last.diff_prev, p[1]).stmt_id,
                                 MaxDepth) :
                   /\ get_relation(last.diff_prev, k) \in last.del
                   /\ ~HasNode(last.upd, k)

\* The name-matched pairs in which the body of the new function has several
\* statements and its first does not shape-match the first of prev's body.
HeadMismatches(t1, t2) ==
    {p \in NameMatched(t1, t2) :
        /\ HeadCell(t1, p[1]).tag \in {"Item", "EndItem"}
        /\ HeadCell(t2, p[2]).tag = "Item"
        /\ match_ids(HeadCell(t1, p[1]).stmt_id, HeadCell(t2, p[2]).stmt_id, t1, t2)
               = "false"}

\* C23: Statement inserted at the head of a body.  When the first statement
\* of a name-matched function's body in new does not shape-match prev's first
\* statement, the statement list reachable from that function's Compound via
\* start_id in the updated tree begins with the inserted statement: the
\* Compound is re-pointed to the head cell Id returned by compare_items, and
\* the old and new Compound relations are recorded in the delete and insert
\* sets.
C23_InsertedAtHead ==
    DiffOfWellFormed =>
        \A p \in HeadMismatches(last.diff_prev, last.diff_new) :
            /\ KindAt(last.upd, p[1].body_id, {"Compound"})
            /\ KindAt(last.upd, get_relation(last.upd, p[1].body_id).start_id,
                      {"Item", "EndItem"})
            /\ match_ids(HeadCell(last.upd, p[1]).stmt_id,
                         HeadCell(last.diff_new, p[2]).stmt_id,
                         last.upd, last.diff_new) = "true"
            /\ get_relation(last.diff_prev, p[1].body_id) \in last.del
            /\ get_relation(last.upd, p[1].body_id) \in last.ins

\* The relations the last diff inserted under Ids above prev's max_id: those
\* of the nodes insert_onwards and compare_items allocated.
AllocatedRelations == {r \in last.ins : r.id > last.diff_prev.max_id}

\* C24: Fresh Ids are fresh.  During a diff, every Id allocated for an
\* inserted node (by insert_onwards for any node kind including FunCall and
\* TransUnit, and by compare_items for a fresh Item cell) is allocated from
\* the tree's max_id after the node's child subtrees have been inserted, so no
\* add_node overwrites a node: all nodes inserted by one diff have pairwise
\* distinct Ids, and each is in the updated tree as it was inserted.
C24_FreshIdsAreFresh ==
    DiffCompleted =>
        /\ \A r1, r2 \in AllocatedRelations : r1.id = r2.id => r1 = r2
        /\ \A r \in AllocatedRelations :
               HasNode(last.upd, r.id) => get_relation(last.upd, r.id) = r

\* The smaller of two numbers.
Min(a, b) == IF a <= b THEN a ELSE b

\* FunDef relation r replaces prev's FunDef d1 as C25 says, d2 being the
\* function of new: same Id, name, return type and body, the retained prev
\* Arg Ids in order, then the Args of new beyond prev's, inserted as new nodes.
ReplacesFunDef(r, d1, d2, prev, upd, new_ast, ins) ==
    /\ r.tag = "FunDef"
    /\ r.id = d1.id
    /\ r.fun_name = d1.fun_name
    /\ r.return_type_id = d1.return_type_id
    /\ r.body_id = d1.body_id
    /\ Len(r.arg_ids) = Len(d2.arg_ids)
    /\ \A i \in 1..Min(Len(d1.arg_ids), Len(d2.arg_ids)) : r.arg_ids[i] = d1.arg_ids[i]
    /\ \A i \in (Len(d1.arg_ids) + 1)..Len(d2.arg_ids) :
           /\ ~HasNode(prev, r.arg_ids[i])
           /\ Mismatch \notin PairWalk(r.arg_ids[i], d2.arg_ids[i], upd, new_ast, MaxDepth)
           /\ \A k \in Subtree(upd, r.arg_ids[i], MaxDepth) : get_relation(upd, k) \in ins

C26_InsertPreservesShape ==
    last.event = "insert_onwards" =>
        /\ ~last.panic
        /\ Mismatch \notin PairWalk(last.id, last.node_id, last.tree, last.new_ast, MaxDepth)
        /\ last.set = {get_relation(last.tree, k) : k \in Subtree(last.tree, last.id, MaxDepth)}
        /\ Cardinality(last.set)
               = Cardinality(Subtree(last.new_ast, last.node_id, MaxDepth))

\* C27: delete_onwards removes the whole subtree.  For every node id of a
\* tree and every node kind (including FunCall with arguments and TransUnit),
\* delete_onwards(id, tree) terminates with a delete set equal to exactly the
\* relations of the subtree rooted at id and a returned tree whose arena
\* contains none of that subtree's nodes and all other nodes unchanged.
C27_DeleteRemovesSubtree ==
    last.event = "delete_onwards" =>
        /\ ~last.panic
        /\ last.set = {get_relation(last.ast, k) :
                          k \in Subtree(last.ast, last.node_id, MaxDepth)}
        /\ Keys(last.tree) = Keys(last.ast) \ Subtree(last.ast, last.node_id, MaxDepth)
        /\ \A k \in Keys(last.tree) : get_node(last.tree, k) = get_node(last.ast, k)

\* The names of the functions of t in the order its TransUnit lists them.
FunNames(t) ==
    [i \in DOMAIN get_relation(t, get_root(t)).body_ids |->
        get_relation(t, get_relation(t, get_root(t)).body_ids[i]).fun_name]

\* new holds the functions of prev, each with the signature and body it has
\* in prev, listed in another order.
Reordered(prev, new) ==
    /\ Len(FunNames(prev)) = Len(FunNames(new))
    /\ FunNames(prev) # FunNames(new)
    /\ Range(FunNames(prev)) = Range(FunNames(new))
    /\ \A p \in NameMatched(prev, new) :
           Mismatch \notin PairWalk(p[1].id, p[2].id, prev, new, MaxDepth)

\* C28: top-level matching is by name, not position.  When new holds the
\* functions of prev (equal names, shape-identical signatures and bodies) in
\* a different order, the insert and the delete set are empty and the
\* TransUnit relation of the updated tree is the one of prev.
C28_MatchingByName ==
    (DiffOfWellFormed /\ Reordered(last.diff_prev, last.diff_new)) =>
        /\ last.ins = {}
        /\ last.del = {}
        /\ get_relation(last.upd, get_root(last.upd))
               = get_relation(last.diff_prev, get_root(last.diff_prev))

\* A diff of a tree against the same functions in another order, one of them
\* with an argument and a call in its body.
C28_Witness ==
    /\ DiffOfWellFormed
    /\ Reordered(last.diff_prev, last.diff_new)
    /\ last.ins = {}
    /\ get_root(last.upd) = get_root(last.diff_prev)
    /\ \E p \in NameMatched(last.diff_prev, last.diff_new) : Len(p[1].arg_ids) > 0

\* The relations the latest iteration handed to the engine.
SentRelations ==
    IF last.event \in {"start", "write"} /\ ~last.panic THEN last.ins ELSE {}

\* C29: relation-to-engine conversion is faithful.  Every relation handed to
\* the engine arrives in the relation of its own tag as the record with the
\* same tag and the same field values in the same order (a Float as a Float
\* record, a FunDef with its fun_name, return_type_id, arg_ids and body_id),
\* and distinct relations arrive as distinct records.
C29_FaithfulConversion ==
    /\ \A r \in SentRelations :
          /\ get_equiv_relid(r) = r.tag
          /\ get_equiv_ddvalue(r) = r
          /\ [relid |-> r.tag, v |-> r] \in store
    /\ \A r1, r2 \in SentRelations :
          r1 # r2 => get_equiv_ddvalue(r1) # get_equiv_ddvalue(r2)

RECURSIVE ChainEnds(_, _, _)
\* Following next_stmt_id from cell id of t visits Item cells only and stops
\* at an EndItem.
ChainEnds(t, id, depth) ==
    IF depth = 0 \/ ~HasNode(t, id) THEN FALSE
    ELSE IF get_relation(t, id).tag = "EndItem" THEN TRUE
    ELSE IF get_relation(t, id).tag = "Item"
    THEN ChainEnds(t, get_relation(t, id).next_stmt_id, depth - 1)
    ELSE FALSE

\* Every Compound of t starts a chain that ends at an EndItem.
ChainsWellFormed(t) ==
    \A k \in Keys(t) :
        get_relation(t, k).tag = "Compound" =>
            ChainEnds(t, get_relation(t, k).start_id, MaxDepth)

\* C30: statement-chain well-formedness.  In the tree the parser builds and
\* in the updated tree after every diff of a run, following next_stmt_id from
\* the start_id of every Compound visits only Item cells and ends at an
\* EndItem.
C30_StatementChains ==
    (last.event \in {"start", "write"} /\ ~last.panic) =>
        /\ ChainsWellFormed(last.parsed)
        /\ ChainsWellFormed(last.upd)

====
